---- MODULE Spec2Model ----
(***************************************************************************)
(* A model of the offline Expo documentation server                        *)
(* (src/src/offline-docs-fetcher.ts, src/src/download-docs.ts).            *)
(*                                                                         *)
(* Text is a sequence of one-character strings.  Path segments, section    *)
(* and version names are atomic strings.  Scores are kept in hundredths    *)
(* (a score of 20 is 2000), fuzzy distances in hundredths (0..100).        *)
(***************************************************************************)
EXTENDS Integers, Sequences, FiniteSets, TLC

\* ------------------------------------------------------------------ bounds
MaxDocs == 11
MaxCalls == 2
MaxTicks == 4
MaxBlocks == 4
MaxTopics == 16

\* JavaScript's undefined, for an argument or a field that is absent.
Undefined == "_undefined_"
Truthy(x) == x # Undefined /\ x # ""

\* ------------------------------------------------------------------ text
Range(s) == {s[i] : i \in 1..Len(s)}
Max(a, b) == IF a >= b THEN a ELSE b
Min(a, b) == IF a <= b THEN a ELSE b

\* String.prototype.toLowerCase over the model's alphabet.
LowerChar(c) ==
  CASE c = "R" -> "r"
    [] c = "S" -> "s"
    [] c = "G" -> "g"
    [] OTHER -> c
toLowerCase(s) == [i \in 1..Len(s) |-> LowerChar(s[i])]

Slice(s, a, b) == [i \in 1..Max(0, b - a + 1) |-> s[a + i - 1]]

\* p occurs in s at (1-based) position i.
OccursAt(s, p, i) ==
  /\ i >= 1
  /\ i + Len(p) - 1 <= Len(s)
  /\ \A k \in 1..Len(p) : s[i + k - 1] = p[k]

\* String.prototype.includes
includes(s, p) == \E i \in 1..(Len(s) + 1) : OccursAt(s, p, i)

IsSpace(c) == c = " "

\* s.split(/\s+/).filter(word => word.length > 1): the maximal runs of
\* non-whitespace characters that are longer than one character, in order.
RECURSIVE SplitFrom(_, _, _)
SplitFrom(s, i, cur) ==
  IF i > Len(s)
    THEN IF Len(cur) > 1 THEN <<cur>> ELSE <<>>
    ELSE IF IsSpace(s[i])
           THEN (IF Len(cur) > 1 THEN <<cur>> ELSE <<>>) \o SplitFrom(s, i + 1, <<>>)
           ELSE SplitFrom(s, i + 1, Append(cur, s[i]))
Words(s) == SplitFrom(s, 1, <<>>)

\* new RegExp(p): over the model's alphabet "(" opens a group that is never
\* closed (SyntaxError); "." matches any character; every other character
\* matches itself.
RegExpValid(p) == "(" \notin Range(p)
RegExpMatchesAt(s, p, i) ==
  /\ i >= 1
  /\ i + Len(p) - 1 <= Len(s)
  /\ \A k \in 1..Len(p) : p[k] = "." \/ s[i + k - 1] = p[k]

\* (s.match(new RegExp(p, 'g')) || []).length for a valid p: leftmost
\* non-overlapping matches; the empty pattern matches at every position.
RECURSIVE MatchCountFrom(_, _, _)
MatchCountFrom(s, p, i) ==
  IF i + Len(p) - 1 > Len(s) THEN 0
  ELSE IF RegExpMatchesAt(s, p, i)
         THEN 1 + MatchCountFrom(s, p, i + Len(p))
         ELSE MatchCountFrom(s, p, i + 1)
MatchCount(s, p) == IF p = <<>> THEN Len(s) + 1 ELSE MatchCountFrom(s, p, 1)

\* The code-block pattern of performExactAndPartialMatching and extractExcerpt:
\* in the regular-expression literal the backslashes are doubled, so its
\* character class holds the backslash, "s" and "S" only, and a match is a
\* fence, the shortest run of those three characters, and a fence.
\* The backtick character (the lexer of TLA+ has no literal for it).
Backtick == "BACKTICK"
Backslash == "\\"
Fence == <<Backtick, Backtick, Backtick>>
FenceClass == {Backslash, "s", "S"}
ClosingFences(s, i) ==
  {j \in (i + 3)..(Len(s) - 2) :
     /\ OccursAt(s, Fence, j)
     /\ \A k \in (i + 3)..(j - 1) : s[k] \in FenceClass}
SetMin(S) == CHOOSE x \in S : \A y \in S : x <= y
RECURSIVE CodeBlocksFrom(_, _)
CodeBlocksFrom(s, i) ==
  IF i + 5 > Len(s) THEN <<>>
  ELSE IF OccursAt(s, Fence, i) /\ ClosingFences(s, i) # {}
         THEN LET j == SetMin(ClosingFences(s, i))
              IN <<Slice(s, i, j + 2)>> \o CodeBlocksFrom(s, j + 3)
         ELSE CodeBlocksFrom(s, i + 1)
CodeBlocks(s) == CodeBlocksFrom(s, 1)

\* ------------------------------------------------ section/version classifier
SegLower(part) ==
  CASE part = "Guides" -> "guides"
    [] part = "Reference" -> "reference"
    [] OTHER -> part

\* extractSection: the first path part that is a known section, compared in
\* lower case and returned as written.
SectionNames ==
  {"guides", "reference", "eas", "versions", "home", "learn", "tutorial", "get-started"}
RECURSIVE FirstWhere(_, _, _)
FirstWhere(parts, i, S) ==
  IF i > Len(parts) THEN Undefined
  ELSE IF parts[i] \in S THEN parts[i] ELSE FirstWhere(parts, i + 1, S)
extractSection(pathParts) ==
  LET hits == {i \in 1..Len(pathParts) : SegLower(pathParts[i]) \in SectionNames}
  IN IF hits = {} THEN Undefined ELSE pathParts[SetMin(hits)]

\* The path parts of the model that the pattern ^v?\d+\.\d+\.\d+ matches.
VersionLikeParts == {"v51.0.0", "v50.0.0", "51.0.0"}
extractVersion(pathParts, data) ==
  IF FirstWhere(pathParts, 1, VersionLikeParts) # Undefined
    THEN FirstWhere(pathParts, 1, VersionLikeParts)
  ELSE IF FirstWhere(pathParts, 1, {"latest", "unversioned"}) # Undefined
    THEN FirstWhere(pathParts, 1, {"latest", "unversioned"})
  ELSE data.version

\* ------------------------------------------------------------- documents
\* A corpus file: its path parts, the text of its file-name stem, its front
\* matter (an absent title or description is the empty text, an absent
\* version or section is Undefined) and its body.  readable = FALSE is a file
\* that fs.readFile or the front-matter parser rejects.
MkFile(path, stem, title, descr, fmVersion, body, readable) ==
  [path |-> path, stem |-> stem,
   data |-> [title |-> title, description |-> descr, version |-> fmVersion,
             section |-> Undefined],
   body |-> body, readable |-> readable]

\* The metadata record and the IndexedDocument that initializeIndex builds
\* for one file.
MetadataOf(file) ==
  LET section == extractSection(file.path)
      version == extractVersion(file.path, file.data)
  IN [title |-> file.data.title, description |-> file.data.description,
      section |-> IF Truthy(section) THEN section ELSE file.data.section,
      version |-> IF Truthy(version) THEN version ELSE file.data.version]
IndexedDocument(file) ==
  [path |-> file.path,
   title |-> IF file.data.title # <<>> THEN file.data.title ELSE file.stem,
   content |-> file.body,
   metadata |-> MetadataOf(file),
   section |-> extractSection(file.path),
   version |-> extractVersion(file.path, file.data)]

\* ------------------------------------------------------- excerpt extractor
\* indexOf(p, from) and lastIndexOf(p, from), 0-based, -1 when absent.
indexOf(s, p, from) ==
  LET hits == {i \in Max(0, from)..Len(s) : OccursAt(s, p, i + 1)}
  IN IF hits = {} THEN -1 ELSE SetMin(hits)
SetMax(S) == CHOOSE x \in S : \A y \in S : x >= y
lastIndexOf(s, p, from) ==
  LET hits == {i \in 0..Min(from, Len(s)) : OccursAt(s, p, i + 1)}
  IN IF hits = {} THEN -1 ELSE SetMax(hits)

\* substring(a, b), 0-based, end exclusive.
substring(s, a, b) == Slice(s, Min(Max(a, 0), Len(s)) + 1, Min(Max(b, 0), Len(s)))

RECURSIVE TrimLeft(_)
TrimLeft(s) == IF s # <<>> /\ IsSpace(Head(s)) THEN TrimLeft(Tail(s)) ELSE s
RECURSIVE TrimRight(_)
TrimRight(s) ==
  IF s # <<>> /\ IsSpace(s[Len(s)]) THEN TrimRight(Slice(s, 1, Len(s) - 1)) ELSE s
trim(s) == TrimRight(TrimLeft(s))

\* content.replace(code-block pattern, '')
RECURSIVE StripCodeBlocksFrom(_, _)
StripCodeBlocksFrom(s, i) ==
  IF i > Len(s) THEN <<>>
  ELSE IF OccursAt(s, Fence, i) /\ ClosingFences(s, i) # {}
         THEN StripCodeBlocksFrom(s, SetMin(ClosingFences(s, i)) + 3)
         ELSE <<s[i]>> \o StripCodeBlocksFrom(s, i + 1)
StripCodeBlocks(s) == StripCodeBlocksFrom(s, 1)

Ellipsis == <<".", ".", ".">>
Stars == <<"*", "*">>

\* excerpt.replace(new RegExp(`(${term})`, 'gi'), '**$1**') for a valid term:
\* every leftmost non-overlapping match, compared in lower case, is wrapped.
RECURSIVE HighlightFrom(_, _, _)
HighlightFrom(s, term, i) ==
  IF term = <<>>
    THEN IF i > Len(s) THEN Stars \o Stars
         ELSE Stars \o Stars \o <<s[i]>> \o HighlightFrom(s, term, i + 1)
  ELSE IF i > Len(s) THEN <<>>
  ELSE IF RegExpMatchesAt(toLowerCase(s), term, i)
         THEN Stars \o Slice(s, i, i + Len(term) - 1) \o Stars
              \o HighlightFrom(s, term, i + Len(term))
         ELSE <<s[i]>> \o HighlightFrom(s, term, i + 1)
RECURSIVE HighlightAll(_, _)
HighlightAll(s, terms) ==
  IF terms = <<>> THEN s
  ELSE HighlightAll(HighlightFrom(s, Head(terms), 1), Tail(terms))

RECURSIVE FirstWordIndex(_, _)
FirstWordIndex(contentLower, words) ==
  IF words = <<>> THEN -1
  ELSE IF indexOf(contentLower, Head(words), 0) # -1
         THEN indexOf(contentLower, Head(words), 0)
         ELSE FirstWordIndex(contentLower, Tail(words))

\* extractExcerpt(content, query, maxLength); the caller has checked that the
\* query is a valid pattern.
extractExcerpt(content, query, maxLength) ==
  LET queryLower == toLowerCase(query)
      contentLower == toLowerCase(content)
      queryWords == Words(queryLower)
      exact == indexOf(contentLower, queryLower, 0)
      index == IF exact = -1 THEN FirstWordIndex(contentLower, queryWords) ELSE exact
  IN IF index = -1
       THEN substring(trim(StripCodeBlocks(content)), 0, maxLength) \o Ellipsis
       ELSE
         LET start0 == Max(0, index - 100)
             end0 == Min(Len(content), index + Len(queryLower) + 100)
             sentenceStart == lastIndexOf(content, <<".">>, start0)
             start == IF sentenceStart # -1 /\ sentenceStart > start0 - 50
                        THEN sentenceStart + 1 ELSE start0
             sentenceEnd == indexOf(content, <<".">>, end0)
             end == IF sentenceEnd # -1 /\ sentenceEnd < end0 + 50
                      THEN sentenceEnd + 1 ELSE end0
             marked == HighlightAll(trim(substring(content, start, end)),
                                    <<queryLower>> \o queryWords)
         IN (IF start > 0 THEN Ellipsis ELSE <<>>) \o marked
            \o (IF end < Len(content) THEN Ellipsis ELSE <<>>)


\* ------------------------------------------------- exact/partial matcher
\* The number of indices of words whose word occurs in text.
CountWordsIn(text, words) == Cardinality({i \in 1..Len(words) : includes(text, words[i])})

RECURSIVE WordMatchScore(_, _)
WordMatchScore(contentLower, words) ==
  IF words = <<>> THEN 0
  ELSE Min(MatchCount(contentLower, Head(words)), 3)
       + WordMatchScore(contentLower, Tail(words))

RECURSIVE CodeBlockScore(_, _, _)
CodeBlockScore(blocks, queryLower, queryWords) ==
  IF blocks = <<>> THEN 0
  ELSE (IF includes(toLowerCase(Head(blocks)), queryLower)
          THEN 4
          ELSE 2 * CountWordsIn(toLowerCase(Head(blocks)), queryWords))
       + CodeBlockScore(Tail(blocks), queryLower, queryWords)

TitleScore(titleLower, queryLower) ==
  IF titleLower = queryLower THEN 20
  ELSE IF includes(titleLower, queryLower) THEN 15 ELSE 0

\* The score one loop iteration of performExactAndPartialMatching gives a
\* document (in whole points), for a query that is a valid pattern.
DocScore(query, doc) ==
  LET queryLower == toLowerCase(query)
      queryWords == Words(queryLower)
      titleLower == toLowerCase(doc.title)
      contentLower == toLowerCase(doc.content)
  IN TitleScore(titleLower, queryLower)
     + 5 * CountWordsIn(titleLower, queryWords)
     + Min(MatchCount(contentLower, queryLower) * 3, 15)
     + WordMatchScore(contentLower, queryWords)
     + CodeBlockScore(CodeBlocks(doc.content), queryLower, queryWords)

SearchResult(doc, query, score) ==
  [path |-> doc.path, title |-> doc.title,
   excerpt |-> extractExcerpt(doc.content, query, 200),
   section |-> doc.section, version |-> doc.version, score |-> score]

\* new RegExp(queryLower, 'g') is built in the first loop iteration: with no
\* document nothing is compiled and nothing throws.
MatchingThrowsEagerly(query, documents) == ~RegExpValid(toLowerCase(query))
MatchingThrows(query, documents) ==
  documents # <<>> /\ ~RegExpValid(toLowerCase(query))

RECURSIVE performExactAndPartialMatching(_, _)
performExactAndPartialMatching(query, documents) ==
  IF documents = <<>> THEN <<>>
  ELSE (IF DocScore(query, Head(documents)) > 0
          THEN <<SearchResult(Head(documents), query,
                              100 * DocScore(query, Head(documents)))>>
          ELSE <<>>)
       \o performExactAndPartialMatching(query, Tail(documents))

\* ------------------------------------------------------------ result merger
\* A Map keyed by path, as the sequence of its values in insertion order.
MapHasNever(m, path) == FALSE
MapHas(m, path) == \E i \in 1..Len(m) : m[i].path = path
MapIndex(m, path) == CHOOSE i \in 1..Len(m) : m[i].path = path
MapSet(m, r) ==
  IF MapHas(m, r.path) THEN [m EXCEPT ![MapIndex(m, r.path)] = r] ELSE Append(m, r)

RECURSIVE MapFromResults(_, _)
MapFromResults(m, results) ==
  IF results = <<>> THEN m
  ELSE MapFromResults(MapSet(m, Head(results)), Tail(results))

\* (1 - distance) * 10, in hundredths, for a distance in hundredths.
FuzzyScore(distance) == (100 - distance) * 10
\* Math.max(old, old * 0.7 + fuzzy * 0.3), in hundredths.
BlendScoreWeighted(old, fuzzy) == (7 * old + 3 * fuzzy) \div 10
BlendScore(old, fuzzy) == Max(old, (7 * old + 3 * fuzzy) \div 10)

MergeFuseResult(m, fuseResult, query) ==
  LET doc == fuseResult.item
      fuzzyScore == FuzzyScore(fuseResult.score)
  IN IF MapHas(m, doc.path)
       THEN [m EXCEPT ![MapIndex(m, doc.path)].score = BlendScore(@, fuzzyScore)]
       ELSE Append(m, SearchResult(doc, query, fuzzyScore))

RECURSIVE MergeFuseResults(_, _, _)
MergeFuseResults(m, fuseResults, query) ==
  IF fuseResults = <<>> THEN m
  ELSE MergeFuseResults(MergeFuseResult(m, Head(fuseResults), query),
                        Tail(fuseResults), query)

combineSearchResults(fuseResults, exactResults, query) ==
  MergeFuseResults(MapFromResults(<<>>, exactResults), fuseResults, query)

\* combinedResults.sort((a, b) => b.score - a.score): a stable sort, so a
\* result stands behind those of a higher score and those of its own score
\* that came before it.
SortRankLaterFirst(results, i) ==
  1 + Cardinality({j \in 1..Len(results) :
                     \/ results[j].score > results[i].score
                     \/ results[j].score = results[i].score /\ j > i})
SortRank(results, i) ==
  1 + Cardinality({j \in 1..Len(results) :
                     \/ results[j].score > results[i].score
                     \/ results[j].score = results[i].score /\ j < i})
Unsorted(results) == results
SortByScore(results) ==
  [k \in 1..Len(results) |->
     results[CHOOSE i \in 1..Len(results) : SortRank(results, i) = k]]

\* combinedResults.slice(0, 10)
TopResults(sorted) == Slice(sorted, 1, Min(Len(sorted), 10))

\* prepareSearchQuery: each word of a multi-word query, or else the whole
\* query, behind the include-match mark.
RECURSIVE JoinMarked(_)
JoinMarked(words) ==
  IF words = <<>> THEN <<>>
  ELSE IF Len(words) = 1 THEN <<"'">> \o Head(words)
  ELSE <<"'">> \o Head(words) \o <<" ">> \o JoinMarked(Tail(words))
prepareSearchQuery(query) ==
  IF Len(Words(query)) > 1 THEN JoinMarked(Words(query)) ELSE <<"'">> \o query

\* The documents a search looks at: all of them, or those of the section
\* and version asked for.
DocMatchesAny(doc, section, version) == TRUE
DocMatchesFilter(doc, section, version) ==
  /\ (~Truthy(section) \/ doc.section = section)
  /\ (~Truthy(version) \/ doc.version = version \/ version = "latest")
RECURSIVE FilterDocs(_, _, _)
FilterDocs(docs, section, version) ==
  IF docs = <<>> THEN <<>>
  ELSE (IF DocMatchesFilter(Head(docs), section, version) THEN <<Head(docs)>> ELSE <<>>)
       \o FilterDocs(Tail(docs), section, version)
SearchableDocuments(docs, section, version) ==
  IF Truthy(section) \/ Truthy(version) THEN FilterDocs(docs, section, version) ELSE docs

\* ----------------------------------------------------------- rendered text
\* The text of a search: its heading, then the line for no result or one
\* block per result (a falsy section or version prints no line).
RenderResult(r) ==
  [title |-> r.title,
   section |-> IF Truthy(r.section) THEN r.section ELSE "",
   version |-> IF Truthy(r.version) THEN r.version ELSE "",
   score |-> r.score, excerpt |-> r.excerpt]
SearchText(query, section, version, topResults) ==
  [kind |-> "search", query |-> query,
   none |-> IF topResults = <<>>
              THEN <<IF Truthy(section) THEN section ELSE "all sections",
                     IF Truthy(version) THEN version ELSE "">>
              ELSE <<>>,
   results |-> [i \in 1..Len(topResults) |-> RenderResult(topResults[i])]]


\* ------------------------------------------------------ the model's texts
\* Titles, file-name stems and bodies of the corpus files.
TxtRouting ==
  <<"R", "o", "u", "t", "i", "n", "g">>
TxtGuide ==
  <<"G", "u", "i", "d", "e">>
TxtCamera ==
  <<"c", "a", "m", "e", "r", "a">>
TxtIntro ==
  <<"i", "n", "t", "r", "o">>
TxtBroken ==
  <<"b", "r", "o", "k", "e", "n">>
TxtIntroduction == <<"i", "n", "t", "r", "o", "d", "u", "c", "t", "i", "o", "n">>
TxtGettingStarted ==
  <<"g", "e", "t", "t", "i", "n", "g", "-", "s", "t", "a", "r", "t", "e", "d">>
TxtQuickstart == <<"q", "u", "i", "c", "k", "s", "t", "a", "r", "t">>
TxtReadme ==
  <<"R", "E", "A", "D", "M", "E">>
StemRouting ==
  <<"r", "o", "u", "t", "i", "n", "g">>
BodyRouting ==
  <<"R", "o", "u", "t", "e", "r", " ", "u", "s", "e", "s", " ", "r", "o",
  "u", "t", "i", "n", "g", ".">>
BodyThrice ==
  <<"G", "o", ".", " ", "r", "o", "u", "t", "i", "n", "g", ",", " ", "r",
  "o", "u", "t", "i", "n", "g", ".", " ", "r", "o", "u", "t", "i", "n", "g">>
BodyCamera ==
  <<"c", "a", "m", "e", "r", "a", " ", "a", "p", "i">>
BodyFenced ==
  <<"x", " ", Backtick, Backtick, Backtick, "s", "S", Backtick, Backtick,
  Backtick, " ", "y", ".", " ", Backtick, Backtick, Backtick, "r", "o", "u",
  "t", "i", "n", "g", Backtick, Backtick, Backtick>>
BodyIntro ==
  <<"g", "e", "t", "t", "i", "n", "g", " ", "s", "t", "a", "r", "t", "e",
  "d">>
DescCamera ==
  <<"C", "a", "m", "e", "r", "a", " ", "k", "i", "t">>
\* The queries.
QRouting ==
  <<"r", "o", "u", "t", "i", "n", "g">>
QTwoWords ==
  <<"u", "s", "e", "s", " ", "r", "o", "u", "t", "i", "n", "g">>
QFence ==
  <<"s", "s">>
QParen ==
  <<"a", "(">>
QDot ==
  <<"r", ".">>
QNone ==
  <<"z", "z", "z", "z">>
QQuickStart ==
  <<"g", "e", "t", "t", "i", "n", "g", " ", "s", "t", "a", "r", "t", "e",
  "d", " ", "i", "n", "t", "r", "o", "d", "u", "c", "t", "i", "o", "n">>

\* ------------------------------------------------------- the corpus files
\* The corpus root holds files by number.  1..5 are the small corpus of the
\* life-cycle specifications; 6 and 10 + n are the pair of the ranking
\* specification; 100 * j + kind is the j-th file of the large corpus of the
\* search specification, of one of four kinds.
FileRouting ==
  MkFile(<<"guides", "routing.mdx">>, StemRouting, TxtRouting, <<>>, Undefined,
         BodyRouting, TRUE)
FileCamera ==
  MkFile(<<"reference", "v51.0.0", "camera.md">>, TxtCamera, <<>>, DescCamera,
         Undefined, BodyFenced, TRUE)
FileIntro ==
  MkFile(<<"pages", "intro.md">>, TxtIntro, <<>>, <<>>, "latest", BodyIntro, TRUE)
FileBroken ==
  MkFile(<<"guides", "broken.md">>, TxtBroken, <<>>, <<>>, Undefined, <<>>, FALSE)
\* A document titled like the query QFence, and a document that holds the
\* query in n fenced blocks of its body only.
TxtFenceTitle == <<"S", "s">>
TxtNotes == <<"n", "o", "t", "e", "s">>
BodyPlain == <<"x", " ", "y", ".">>
FencedQuery ==
  <<Backtick, Backtick, Backtick, "s", "s", Backtick, Backtick, Backtick, " ">>
RECURSIVE BodyBlocks(_)
BodyBlocks(n) == IF n = 0 THEN <<>> ELSE FencedQuery \o BodyBlocks(n - 1)
FileTitled ==
  MkFile(<<"guides", "ss.md">>, QFence, TxtFenceTitle, <<>>, Undefined, BodyPlain, TRUE)
FileBlocks(n) ==
  MkFile(<<"guides", "notes.md">>, TxtNotes, TxtNotes, <<>>, Undefined,
         BodyBlocks(n), TRUE)
FileIntroduction ==
  MkFile(<<"get-started", "introduction.md">>, TxtIntroduction, TxtIntro, <<>>,
         Undefined, BodyIntro, TRUE)

LibNames ==
  <<"d01.md", "d02.md", "d03.md", "d04.md", "d05.md",
    "d06.md", "d07.md", "d08.md", "d09.md", "d10.md",
    "d11.md", "d12.md", "d13.md", "d14.md", "d15.md",
    "d16.md", "d17.md", "d18.md", "d19.md", "d20.md",
    "d21.md", "d22.md">>
LibStems ==
  <<<<"d", "0", "1">>, <<"d", "0", "2">>, <<"d", "0", "3">>,
    <<"d", "0", "4">>, <<"d", "0", "5">>, <<"d", "0", "6">>,
    <<"d", "0", "7">>, <<"d", "0", "8">>, <<"d", "0", "9">>,
    <<"d", "1", "0">>, <<"d", "1", "1">>, <<"d", "1", "2">>,
    <<"d", "1", "3">>, <<"d", "1", "4">>, <<"d", "1", "5">>,
    <<"d", "1", "6">>, <<"d", "1", "7">>, <<"d", "1", "8">>,
    <<"d", "1", "9">>, <<"d", "2", "0">>, <<"d", "2", "1">>,
    <<"d", "2", "2">>>>
LibKinds == <<"routing", "camera", "thrice", "fenced">>
NKinds == Len(LibKinds)
LibFile(j, kind) ==
  CASE kind = 0 ->
         MkFile(<<"guides", LibNames[j]>>, LibStems[j], TxtRouting, <<>>, Undefined,
                BodyRouting, TRUE)
    [] kind = 1 ->
         MkFile(<<"reference", LibNames[j]>>, LibStems[j], <<>>, DescCamera, Undefined,
                BodyCamera, TRUE)
    [] kind = 2 ->
         MkFile(<<"guides", "v51.0.0", LibNames[j]>>, LibStems[j], TxtGuide, <<>>,
                Undefined, BodyThrice, TRUE)
    [] OTHER ->
         MkFile(<<"pages", LibNames[j]>>, LibStems[j], <<>>, <<>>, "latest",
                BodyFenced, TRUE)
File(id) ==
  CASE id = 1 -> FileRouting
    [] id = 2 -> FileCamera
    [] id = 3 -> FileIntro
    [] id = 4 -> FileBroken
    [] id = 5 -> FileIntroduction
    [] id = 6 -> FileTitled
    [] id > 10 /\ id < 100 -> FileBlocks(id - 10)
    [] OTHER -> LibFile(id \div 100, id % 100)

\* What the corpus root may hold when the server starts, and what an
\* acquisition that returns may leave in it (in the order glob lists them).
StartCorpora == {<<>>, <<1, 2>>, <<1, 4>>}
DownloadedCorpora == {<<>>, <<3, 1>>}
\* The listing corpus: n files below guides, then two below reference and
\* one below pages.
ListCorpus(n) ==
  [j \in 1..(n + 3) |->
     100 * j + (IF j <= n THEN (IF j % 3 = 0 THEN 2 ELSE 0)
                ELSE IF j <= n + 2 THEN 1 ELSE 3)]
\* The large corpus of n files whose kinds start at shift.
LargeCorpus(n, shift) == [j \in 1..n |-> 100 * j + ((j + shift) % NKinds)]

\* ------------------------------------------------------------------ state
VARIABLES
  disk,            \* the corpus root: [exists, files], files by number
  initPc,          \* where initializeIndex stands
  files,           \* initializeIndex's local list of file paths
  fileIdx,         \* the next file of that list to read
  docsIndex,       \* Map path -> metadata, in insertion order
  documentsIndex,  \* IndexedDocument[]
  fuseIndex,       \* <<>> for null, <<paths>> for a Fuse index over documents
  isInitialized,
  promise,         \* initializationPromise: "pending" or "resolved"
  errorLog,        \* console.error calls of initializeIndex
  downloadCalls,   \* downloadAllDocs invocations
  buildStarts,     \* initializeIndex invocations
  fuseSeed,        \* which deterministic behaviour the Fuse library has
  cache,           \* NodeCache: key -> [text, expires]
  now,             \* the clock, in seconds
  callers,         \* the public calls in flight, one record per caller
  ncalls,          \* public calls made so far
  found,           \* the last search computed: its inputs and its stages
  replies,         \* the texts searchDocs has returned, with call and time
  finished         \* the public calls that have returned or thrown, with time

buildVars ==
  <<disk, initPc, files, fileIdx, docsIndex, documentsIndex, fuseIndex,
    isInitialized, promise, errorLog, downloadCalls, buildStarts>>
queryVars == <<cache, callers, ncalls, found, replies, finished>>
vars == <<buildVars, fuseSeed, now, queryVars>>

\* --------------------------------------------------------------- file system
\* The files glob('**/*.{md,mdx}', {cwd: docsDir}) finds: every corpus file.
GlobAll(d) == IF d.exists THEN [i \in 1..Len(d.files) |-> File(d.files[i])] ELSE <<>>

PathsOf(fs) == [i \in 1..Len(fs) |-> fs[i].path]

\* Where the corpus root lies; a pattern that starts with "/" is matched from
\* the root of the file system and yields absolute paths.
DocsDir == <<"/", "srv", "docs-cache">>
IsAbsolute(path) == path # <<>> /\ Head(path) = "/"
\* path.join(docsDir, filePath), as a path below the corpus root
JoinDocsDir(filePath) == IF IsAbsolute(filePath) THEN Tail(filePath) ELSE filePath

\* fs.readFile(path.join(docsDir, filePath)) and the front-matter parser
\* succeed on a readable corpus file.
FileAt(d, filePath) ==
  {i \in 1..Len(GlobAll(d)) : GlobAll(d)[i].path = JoinDocsDir(filePath)}
CanRead(d, filePath) ==
  FileAt(d, filePath) # {} /\ GlobAll(d)[SetMin(FileAt(d, filePath))].readable
ReadFile(d, filePath) == GlobAll(d)[SetMin(FileAt(d, filePath))]

\* The corpus files behind the paths a relative glob returned.
FilesOf(d, paths) == [i \in 1..Len(paths) |-> ReadFile(d, paths[i])]

\* ------------------------------------------------------------------- Fuse
\* The Fuse library is outside the repository: search() is a deterministic
\* function of the collection and the query that returns some of the items,
\* each once, with a distance of at most the threshold (0.6), ordered by
\* distance and then by position.  fuseSeed picks one such function.
FuseTable == <<-1, 0, 30, 60, 15>>
FuseDistance(doc, pos, searchQuery) ==
  FuseTable[((fuseSeed * pos + Len(searchQuery)) % Len(FuseTable)) + 1]
FuseHits(documents, searchQuery) ==
  {i \in 1..Len(documents) : FuseDistance(documents[i], i, searchQuery) >= 0}
RECURSIVE FuseOrder(_, _, _)
FuseOrder(documents, searchQuery, todo) ==
  IF todo = {} THEN <<>>
  ELSE LET best == CHOOSE i \in todo : \A j \in todo :
                     \/ FuseDistance(documents[i], i, searchQuery)
                          < FuseDistance(documents[j], j, searchQuery)
                     \/ /\ FuseDistance(documents[i], i, searchQuery)
                             = FuseDistance(documents[j], j, searchQuery)
                        /\ i <= j
       IN <<[item |-> documents[best],
             score |-> FuseDistance(documents[best], best, searchQuery)]>>
          \o FuseOrder(documents, searchQuery, todo \ {best})
FuseSearch(documents, searchQuery) ==
  FuseOrder(documents, searchQuery, FuseHits(documents, searchQuery))


\* ------------------------------------------------------------ index build
stdTTL == 604800

Missing == [exists |-> FALSE, files |-> <<>>]
Holding(fs) == [exists |-> TRUE, files |-> fs]

\* The catch block of initializeIndex: the error is logged and the function
\* returns (AfterCatch: the function is over), which resolves
\* initializationPromise; nothing else is touched.
RestartAfterCatch == "pathExists"
AfterCatch == "failed"
BuildFails ==
  /\ errorLog' = errorLog + 1
  /\ initPc' = AfterCatch
  /\ promise' = "resolved"

\* The end of the try block: the Fuse index over documentsIndex, the flag.
BuildCompletes(documents) ==
  /\ fuseIndex' = <<[i \in 1..Len(documents) |-> documents[i].path]>>
  /\ isInitialized' = TRUE
  /\ initPc' = "done"
  /\ promise' = "resolved"

\* One iteration of the loop over files is one fs.readFile; the code after
\* the last iteration runs in the same turn.
StartReading(fs) ==
  /\ files' = PathsOf(fs)
  /\ fileIdx' = 1
  /\ IF fs = <<>>
       THEN /\ BuildCompletes(documentsIndex)
            /\ UNCHANGED errorLog
       ELSE /\ initPc' = "read"
            /\ UNCHANGED <<fuseIndex, isInitialized, promise, errorLog>>

\* await fs.pathExists(docsDir)
InitPathExists ==
  /\ initPc = "pathExists"
  /\ initPc' = IF disk.exists THEN "glob1" ELSE "download1"
  /\ UNCHANGED <<disk, files, fileIdx, docsIndex, documentsIndex, fuseIndex,
                 isInitialized, promise, errorLog, downloadCalls, buildStarts>>
  /\ UNCHANGED <<fuseSeed, now, queryVars>>

\* downloadAllDocs: it empties the corpus root and fills it again, or throws
\* with the root as it was or as far as it got.  The downloads swallow
\* their own errors, so a run that fetched nothing still returns.
DownloadReturns(next) ==
  \E fs \in DownloadedCorpora :
    /\ disk' = Holding(fs)
    /\ initPc' = next
    /\ UNCHANGED <<promise, errorLog>>
DownloadThrows ==
  /\ disk' \in {disk} \cup {Holding(fs) : fs \in DownloadedCorpora}
  /\ BuildFails

\* await this.downloadDocs(), the corpus root being absent
InitDownloadMissing ==
  /\ initPc = "download1"
  /\ downloadCalls' = downloadCalls + 1
  /\ DownloadReturns("glob1") \/ DownloadThrows
  /\ UNCHANGED <<files, fileIdx, docsIndex, documentsIndex, fuseIndex,
                 isInitialized, buildStarts>>
  /\ UNCHANGED <<fuseSeed, now, queryVars>>

\* const files = await glob(...); with no file the download is asked for.
InitGlob ==
  /\ initPc = "glob1"
  /\ IF GlobAll(disk) = <<>>
       THEN /\ initPc' = "download2"
            /\ files' = <<>>
            /\ UNCHANGED <<fileIdx, fuseIndex, isInitialized, promise, errorLog>>
       ELSE StartReading(GlobAll(disk))
  /\ UNCHANGED <<disk, docsIndex, documentsIndex, downloadCalls, buildStarts>>
  /\ UNCHANGED <<fuseSeed, now, queryVars>>

\* await this.downloadDocs(), no file having been found
InitDownloadEmpty ==
  /\ initPc = "download2"
  /\ downloadCalls' = downloadCalls + 1
  /\ DownloadReturns("glob2") \/ DownloadThrows
  /\ UNCHANGED <<files, fileIdx, docsIndex, documentsIndex, fuseIndex,
                 isInitialized, buildStarts>>
  /\ UNCHANGED <<fuseSeed, now, queryVars>>

\* the re-scan after the download: files.push(...newFiles)
InitRescan ==
  /\ initPc = "glob2"
  /\ StartReading(FilesOf(disk, files) \o GlobAll(disk))
  /\ UNCHANGED <<disk, docsIndex, documentsIndex, downloadCalls, buildStarts>>
  /\ UNCHANGED <<fuseSeed, now, queryVars>>

\* await fs.readFile(...) of files[fileIdx], then the rest of the iteration.
InitReadFile ==
  /\ initPc = "read"
  /\ LET file == ReadFile(disk, files[fileIdx])
         documents == Append(documentsIndex, IndexedDocument(file))
     IN IF ~CanRead(disk, files[fileIdx])
          THEN /\ BuildFails
               /\ UNCHANGED <<docsIndex, documentsIndex, fuseIndex, isInitialized,
                              fileIdx>>
          ELSE /\ docsIndex' = MapSet(docsIndex, [path |-> file.path,
                                                  metadata |-> MetadataOf(file)])
               /\ documentsIndex' = documents
               /\ fileIdx' = fileIdx + 1
               /\ IF fileIdx = Len(files)
                    THEN /\ BuildCompletes(documents)
                         /\ UNCHANGED errorLog
                    ELSE UNCHANGED <<initPc, fuseIndex, isInitialized, promise,
                                     errorLog>>
  /\ UNCHANGED <<disk, files, downloadCalls, buildStarts>>
  /\ UNCHANGED <<fuseSeed, now, queryVars>>

BuildStep ==
  \/ InitPathExists
  \/ InitDownloadMissing
  \/ InitGlob
  \/ InitDownloadEmpty
  \/ InitRescan
  \/ InitReadFile


\* -------------------------------------------------------------------- glob
FileName(file) == file.path[Len(file.path)]
HasDir(file, dir) == \E i \in 1..(Len(file.path) - 1) : file.path[i] = dir
HasDirBelow(file, above, dir) ==
  \E i, j \in 1..(Len(file.path) - 1) : i < j /\ file.path[i] = above /\ file.path[j] = dir
StartsWith(s, p) == OccursAt(s, p, 1)

RECURSIVE PickIndices(_, _, _)
PickIndices(fs, S, i) ==
  IF i > Len(fs) THEN <<>>
  ELSE (IF i \in S THEN <<fs[i]>> ELSE <<>>) \o PickIndices(fs, S, i + 1)
SelectFiles(fs, Keep(_)) == PickIndices(fs, {i \in 1..Len(fs) : Keep(fs[i])}, 1)

\* The file names <version>.md and <version>.mdx.
VersionFileNames(version) ==
  CASE version = "v51.0.0" -> {"v51.0.0.md", "v51.0.0.mdx"}
    [] version = "latest" -> {"latest.md", "latest.mdx"}
    [] OTHER -> {}

\* The spelling of the directory names of the corpus.
DirText(dir) ==
  CASE dir = "guides" -> <<"g", "u", "i", "d", "e", "s">>
    [] dir = "reference" -> <<"r", "e", "f", "e", "r", "e", "n", "c", "e">>
    [] dir = "pages" -> <<"p", "a", "g", "e", "s">>
    [] dir = "v51.0.0" -> <<"v", "5", "1", ".", "0", ".", "0">>
    [] OTHER -> <<>>
EndsWith(s, p) == Len(p) <= Len(s) /\ OccursAt(s, p, Len(s) - Len(p) + 1)
SlashIndex(path) ==
  IF \E i \in 1..Len(path) : path[i] = "/"
    THEN SetMin({i \in 1..Len(path) : path[i] = "/"})
    ELSE 0

\* The files that lie beside the corpus root, outside it: the README of the
\* package.
OutsideFiles == <<[path |-> <<"/", "srv", "README.md">>, stem |-> TxtReadme]>>

\* "**/*<path>*.{md,mdx}" matches the file, its directories counted from
\* position from on: a path without "/" is a part of the file-name stem; a
\* path "<dir>/<name>" (one "/") is the end of the name of the directory
\* that holds the file and the start of the stem.
NameMatches(file, path, from) ==
  LET i == SlashIndex(path)
  IN IF i = 0 THEN includes(file.stem, path)
     ELSE /\ Len(file.path) - 1 >= from
          /\ EndsWith(DirText(file.path[Len(file.path) - 1]), Slice(path, 1, i - 1))
          /\ StartsWith(file.stem, Slice(path, i + 1, Len(path)))

\* if (version && version !== 'latest')
VersionAlwaysConstrains(version) == Truthy(version)
VersionConstrains(version) == Truthy(version) /\ version # "latest"

\* getDocByPath's pattern: "**/<version>" for a version other than latest,
\* then "/**/*<path>*" for a path, then ".{md,mdx}".  Without the version
\* the pattern starts with "/": glob walks from the root of the file system
\* and returns absolute paths, those of the corpus files among them.
GlobByPath(d, path, version) ==
  LET versioned == VersionConstrains(version)
      InVersion(f) ==
        \E i \in 1..(Len(f.path) - 1) :
          f.path[i] = version /\ NameMatches(f, path, i + 1)
      Named(f) == Len(f.path) >= 1 /\ FileName(f) \in VersionFileNames(version)
      Anywhere(f) == NameMatches(f, path, 1)
      rel == PathsOf(SelectFiles(GlobAll(d), Anywhere))
  IN IF versioned /\ path # <<>> THEN PathsOf(SelectFiles(GlobAll(d), InVersion))
     ELSE IF versioned THEN PathsOf(SelectFiles(GlobAll(d), Named))
     ELSE IF path # <<>>
       THEN [i \in 1..Len(rel) |-> DocsDir \o rel[i]]
            \o PathsOf(SelectFiles(OutsideFiles, Anywhere))
     ELSE <<>>

\* listSections' pattern: every file, or those below a directory named like
\* the section; a version other than latest replaces the pattern.
GlobSections(d, section, version) ==
  LET InSection(f) == HasDir(f, section)
      InVersion(f) == HasDir(f, version)
  IN IF Truthy(version) /\ version # "latest"
       THEN PathsOf(SelectFiles(GlobAll(d), InVersion))
     ELSE IF Truthy(section) THEN PathsOf(SelectFiles(GlobAll(d), InSection))
     ELSE PathsOf(GlobAll(d))

\* getApiReference's three patterns, each below "**/<version>/" for a version
\* other than latest.
GlobApi(d, module, version, k) ==
  LET versioned == Truthy(version) /\ version # "latest"
      dir == IF k = 2 THEN "reference" ELSE "sdk"
      Keep(f) ==
        /\ includes(f.stem, module)
        /\ versioned => HasDir(f, version)
        /\ k > 1 => IF versioned THEN HasDirBelow(f, version, dir) ELSE HasDir(f, dir)
  IN PathsOf(SelectFiles(GlobAll(d), Keep))

\* getQuickStart's five patterns.
GlobQuick(d, k) ==
  LET Keep(f) ==
        CASE k = 1 -> Len(f.path) > 1 /\ f.path[1] = "get-started"
          [] k = 2 -> Len(f.path) > 1 /\ f.path[1] = "tutorial"
          [] k = 3 -> StartsWith(f.stem, TxtIntroduction)
          [] k = 4 -> StartsWith(f.stem, TxtGettingStarted)
          [] OTHER -> StartsWith(f.stem, TxtQuickstart)
  IN PathsOf(SelectFiles(GlobAll(d), Keep))


\* ------------------------------------------------------------ result cache
\* NodeCache with stdTTL: an entry lives until its time t has passed; a get
\* of a dead entry removes it.
CacheLiveBeforeExpiry(e) == e.t > now
CacheLive(e) == e.t >= now
CacheHit(key) == \E e \in cache : e.key = key /\ CacheLive(e)
CacheGet(key) == (CHOOSE e \in cache : e.key = key /\ CacheLive(e)).text
CacheAfterGetStoring(key) ==
  cache \cup {[key |-> key, text |-> [kind |-> "error"], t |-> now + stdTTL]}
CacheAfterGet(key) == {e \in cache : e.key # key \/ CacheLive(e)}
CacheSet(c, key, text) ==
  {e \in c : e.key # key} \cup {[key |-> key, text |-> text, t |-> now + stdTTL]}

\* The keys: the operation and its arguments, an absent section as 'all' and
\* an absent version as 'latest'.
OrAll(section) == IF Truthy(section) THEN section ELSE "all"
OrLatest(version) == IF Truthy(version) THEN version ELSE "latest"
SearchKey(query, section, version) == <<"search", query, OrAll(section), OrLatest(version)>>
ContentKey(filePath) == <<"content", filePath>>
SectionsKey(section, version) == <<"sections", OrAll(section), OrLatest(version)>>
ApiKey(module, version) == <<"api", module, OrLatest(version)>>
QuickStartKey(platform) == <<"quickstart", OrAll(platform)>>

\* ----------------------------------------------------------- rendered text
\* getDocContent's text: the title line and the description line when the
\* front matter has them, then the body.
ContentText(file) ==
  [kind |-> "content", title |-> file.data.title,
   description |-> file.data.description, body |-> file.body]
\* if (cached): the empty string is no hit.
TextTruthy(text) ==
  ~(text.kind = "content" /\ text.title = <<>> /\ text.description = <<>>
      /\ text.body = <<>>)

\* listSections' text: the heading, then per section (in the order of its
\* first file) the first 15 titles and the count of the others.
FileTitle(index, file) ==
  IF MapHas(index, file.path) /\ index[MapIndex(index, file.path)].metadata.title # <<>>
    THEN index[MapIndex(index, file.path)].metadata.title
    ELSE file.stem
FileSectionGeneral(file) == "general"
FileSection(file) ==
  IF Truthy(extractSection(file.path)) THEN extractSection(file.path) ELSE "general"
RECURSIVE GroupBySection(_, _, _)
GroupBySection(groups, index, fs) ==
  IF fs = <<>> THEN groups
  ELSE LET name == FileSection(Head(fs))
           title == FileTitle(index, Head(fs))
           at == {i \in 1..Len(groups) : groups[i].name = name}
       IN GroupBySection(
            IF at = {} THEN Append(groups, [name |-> name, topics |-> <<title>>])
            ELSE [groups EXCEPT ![SetMin(at)].topics = Append(@, title)],
            index, Tail(fs))
SectionsText(section, version, index, fs) ==
  LET groups == GroupBySection(<<>>, index, fs)
  IN [kind |-> "sections",
      section |-> IF Truthy(section) THEN section ELSE "",
      version |-> IF Truthy(version) THEN version ELSE "",
      groups |-> [i \in 1..Len(groups) |->
                    [name |-> groups[i].name,
                     topics |-> Slice(groups[i].topics, 1, Min(Len(groups[i].topics), 15)),
                     more |-> Max(Len(groups[i].topics) - 15, 0)]]]

NoText == [kind |-> "none"]

\* -------------------------------------------------------------- searchDocs
\* The documents the Fuse index was built over.
FuseCollection ==
  [i \in 1..Len(fuseIndex[1]) |->
     documentsIndex[SetMin({j \in 1..Len(documentsIndex) :
                              documentsIndex[j].path = fuseIndex[1][i]})]]
\* What is recorded of a computed search: each result's path and score.
Scored(results) ==
  [i \in 1..Len(results) |-> [path |-> results[i].path, score |-> results[i].score]]

\* The try block of searchDocs: the stages of the computation, or the error.
\* What this.fuseIndex holds after searchDocs has chosen its index: the
\* index of a filtered search is bound to a local, the field is not assigned.
FuseIndexReplaced(index, documents, section, version) ==
  IF Truthy(section) \/ Truthy(version)
    THEN <<PathsOf(SearchableDocuments(documents, section, version))>>
    ELSE index
FuseIndexAfterSearch(index, documents, section, version) == index

SearchStages(query, section, version) ==
  LET searchQuery == prepareSearchQuery(query)
      searchable == SearchableDocuments(documentsIndex, section, version)
      collection == IF Truthy(section) \/ Truthy(version) THEN searchable
                    ELSE FuseCollection
      fuseResults == FuseSearch(collection, searchQuery)
      exact == performExactAndPartialMatching(query, searchable)
      combined == combineSearchResults(fuseResults, exact, query)
      top == TopResults(SortByScore(combined))
  IN IF fuseIndex = <<>>
       THEN [ok |-> FALSE, error |-> "Search index not initialized"]
     ELSE IF MatchingThrows(query, searchable)
       THEN [ok |-> FALSE, error |-> "Invalid regular expression"]
     ELSE [ok |-> TRUE,
           fuse |-> [i \in 1..Len(fuseResults) |-> [path |-> fuseResults[i].item.path]],
           distances |-> [i \in 1..Len(fuseResults) |-> fuseResults[i].score],
           exact |-> exact, combined |-> combined, top |-> top,
           text |-> SearchText(query, section, version, top)]


\* ------------------------------------------------------------ public calls
Callers == {1}

\* A caller's record: where its call stands (pc), the method that is running
\* (op), the public method that called it (outer, "" for none), the
\* arguments, the glob results gathered so far, and how the last call ended
\* (hit: its text came out of the cache).  For a request the tool handler
\* has taken: the tool it names, whether it carries arguments, and the code
\* of the McpError it is answered with ("" for none).
Idle ==
  [pc |-> "idle", op |-> "", outer |-> "", query |-> <<>>, section |-> Undefined,
   version |-> Undefined, filePath |-> <<>>, path |-> <<>>, module |-> <<>>,
   platform |-> Undefined, k |-> 0, globbed |-> <<>>,
   status |-> "none", hit |-> FALSE, text |-> NoText, error |-> <<>>,
   tool |-> "", given |-> FALSE, code |-> ""]

\* The message a public method puts before an error of its try block.
ErrorPrefix(op) ==
  CASE op = "searchDocs" -> "Search failed"
    [] op = "getDocContent" -> "Failed to fetch content"
    [] op = "getDocByPath" -> "Failed to find document"
    [] op = "listSections" -> "Failed to list sections"
    [] op = "getApiReference" -> "Failed to fetch API reference"
    [] OTHER -> "Failed to get quick start"

Returns(rec, text) ==
  [rec EXCEPT !.pc = "idle", !.status = "ok", !.hit = FALSE, !.text = text,
              !.error = <<>>, !.k = 0, !.globbed = <<>>]
\* if (cached) return { content: [{ type: 'text', text: cached }] }
ReturnsCached(rec, text) == [Returns(rec, text) EXCEPT !.hit = TRUE]
\* The catch block of the tool handler: whatever its try block has thrown
\* is thrown again as an McpError with the code InternalError.
CatchCode(thrown) == "InternalError"
\* The code a failure of a method of the fetcher ends with: the handler's
\* catch gives it one when the call came through the handler.
CodeOfFailure(rec) == IF rec.tool = "" THEN "" ELSE CatchCode("Error")
\* An error of rec.op's try block, rethrown by its catch and then by the
\* catch of the public method that awaits it.
Throws(rec, message) ==
  [rec EXCEPT !.pc = "idle", !.status = "error", !.text = NoText,
              !.error = (IF rec.outer # "" THEN <<ErrorPrefix(rec.outer)>> ELSE <<>>)
                        \o <<ErrorPrefix(rec.op), message>>,
              !.k = 0, !.globbed = <<>>, !.code = CodeOfFailure(rec)]
\* An error thrown in the try block of the public method itself.
ThrowsOwn(rec, message) ==
  [rec EXCEPT !.pc = "idle", !.status = "error", !.text = NoText,
              !.error = <<ErrorPrefix(rec.op), message>>, !.k = 0, !.globbed = <<>>,
              !.code = CodeOfFailure(rec)]

\* ensureInitialized: it returns at once when the flag is set and otherwise
\* awaits initializationPromise.
EnsureInitializedSkipped == TRUE
EnsureInitializedReturns == isInitialized \/ promise = "resolved"

\* A call of a public method runs up to its await of ensureInitialized.
Call(c, rec) ==
  /\ callers[c].pc = "idle"
  /\ callers' = [callers EXCEPT ![c] = [rec EXCEPT !.pc = "ensure"]]
  /\ ncalls' = ncalls + 1
  /\ UNCHANGED <<buildVars, fuseSeed, now, cache, found, replies, finished>>

CallSearchDocs(c, query, section, version) ==
  Call(c, [Idle EXCEPT !.op = "searchDocs", !.query = query, !.section = section,
                       !.version = version])
CallGetDocContent(c, filePath) ==
  Call(c, [Idle EXCEPT !.op = "getDocContent", !.filePath = filePath])
CallGetDocByPath(c, path, version) ==
  Call(c, [Idle EXCEPT !.op = "getDocByPath", !.path = path, !.version = version])
CallListSections(c, section, version) ==
  Call(c, [Idle EXCEPT !.op = "listSections", !.section = section, !.version = version])
CallGetApiReference(c, module, version) ==
  Call(c, [Idle EXCEPT !.op = "getApiReference", !.module = module, !.version = version])
CallGetQuickStart(c, platform) ==
  Call(c, [Idle EXCEPT !.op = "getQuickStart", !.platform = platform])

Resumes(c, op) ==
  /\ callers[c].pc = "ensure"
  /\ callers[c].op = op
  /\ EnsureInitializedReturns

\* What is kept of a reply of searchDocs.
Reply(rec, text) ==
  [query |-> rec.query, section |-> rec.section, version |-> rec.version,
   at |-> now, text |-> text]

\* searchDocs, from the cache lookup to its return: no await in between.
SearchDocs(c) ==
  LET rec == callers[c]
      key == SearchKey(rec.query, rec.section, rec.version)
  IN /\ Resumes(c, "searchDocs")
     /\ IF CacheHit(key) /\ TextTruthy(CacheGet(key))
          THEN /\ callers' = [callers EXCEPT ![c] = ReturnsCached(rec, CacheGet(key))]
               /\ replies' = replies \cup {Reply(rec, CacheGet(key))}
               /\ UNCHANGED <<cache, found, fuseIndex>>
          ELSE \E stages \in {SearchStages(rec.query, rec.section, rec.version)} :
                 IF ~stages.ok
                   THEN /\ callers' = [callers EXCEPT ![c] = Throws(rec, stages.error)]
                        /\ cache' = CacheAfterGet(key)
                        /\ UNCHANGED <<found, replies>>
                        /\ fuseIndex' =
                             IF fuseIndex = <<>> THEN fuseIndex
                             ELSE FuseIndexAfterSearch(fuseIndex, documentsIndex,
                                                       rec.section, rec.version)
                   ELSE /\ callers' = [callers EXCEPT ![c] = Returns(rec, stages.text)]
                        /\ fuseIndex' = FuseIndexAfterSearch(fuseIndex, documentsIndex,
                                                             rec.section, rec.version)
                        /\ cache' = CacheSet(CacheAfterGet(key), key, stages.text)
                        /\ replies' = replies \cup {Reply(rec, stages.text)}
                        /\ found' = [ok |-> TRUE, query |-> rec.query,
                                      section |-> rec.section, version |-> rec.version,
                                      exact |-> PathsOf(stages.exact),
                                      fuse |-> PathsOf(stages.fuse),
                                      exactScored |-> Scored(stages.exact),
                                      distances |-> stages.distances,
                                      combined |-> Scored(stages.combined),
                                      top |-> Scored(stages.top),
                                      excerpts |-> [i \in 1..Len(stages.top) |->
                                                      stages.text.results[i].excerpt]]
     /\ UNCHANGED <<disk, initPc, files, fileIdx, docsIndex, documentsIndex,
                    isInitialized, promise, errorLog, downloadCalls, buildStarts,
                    fuseSeed, now, ncalls>>

\* getDocContent up to its await of fs.readFile
GetDocContent(c) ==
  LET rec == callers[c]
      key == ContentKey(rec.filePath)
  IN /\ Resumes(c, "getDocContent")
     /\ IF CacheHit(key) /\ TextTruthy(CacheGet(key))
          THEN /\ callers' = [callers EXCEPT ![c] = ReturnsCached(rec, CacheGet(key))]
               /\ UNCHANGED cache
          ELSE /\ callers' = [callers EXCEPT ![c].pc = "readFile"]
               /\ cache' = CacheAfterGet(key)
     /\ UNCHANGED <<buildVars, fuseSeed, now, ncalls, found, replies>>

\* getDocContent from the file's content to its return
GetDocContentRead(c) ==
  LET rec == callers[c]
      key == ContentKey(rec.filePath)
  IN /\ rec.pc = "readFile"
     /\ IF CanRead(disk, rec.filePath)
          THEN /\ callers' = [callers EXCEPT ![c] =
                                Returns(rec, ContentText(ReadFile(disk, rec.filePath)))]
               /\ cache' = CacheSet(cache, key, ContentText(ReadFile(disk, rec.filePath)))
          ELSE /\ callers' = [callers EXCEPT ![c] = Throws(rec, "cannot read the file")]
               /\ UNCHANGED cache
     /\ UNCHANGED <<buildVars, fuseSeed, now, ncalls, found, replies>>

\* The call of getDocContent(files[0]) by a public method that awaits it.
Nested(rec, filePath) ==
  [rec EXCEPT !.pc = "ensure", !.outer = rec.op, !.op = "getDocContent",
              !.filePath = filePath, !.k = 0, !.globbed = <<>>]

\* getDocByPath up to its await of glob
GetDocByPath(c) ==
  /\ Resumes(c, "getDocByPath")
  /\ callers' = [callers EXCEPT ![c].pc = "glob"]
  /\ UNCHANGED <<buildVars, fuseSeed, now, cache, ncalls, found, replies>>

\* getDocByPath from glob's result on
GetDocByPathGlob(c) ==
  LET rec == callers[c]
      fs == GlobByPath(disk, rec.path, rec.version)
  IN /\ rec.pc = "glob"
     /\ rec.op = "getDocByPath"
     /\ callers' = [callers EXCEPT ![c] =
                      IF fs = <<>> THEN ThrowsOwn(rec, "Document not found")
                      ELSE Nested(rec, fs[1])]
     /\ UNCHANGED <<buildVars, fuseSeed, now, cache, ncalls, found, replies>>

\* listSections up to its await of glob
ListSections(c) ==
  LET rec == callers[c]
      key == SectionsKey(rec.section, rec.version)
  IN /\ Resumes(c, "listSections")
     /\ IF CacheHit(key) /\ TextTruthy(CacheGet(key))
          THEN /\ callers' = [callers EXCEPT ![c] = ReturnsCached(rec, CacheGet(key))]
               /\ UNCHANGED cache
          ELSE /\ callers' = [callers EXCEPT ![c].pc = "glob"]
               /\ cache' = CacheAfterGet(key)
     /\ UNCHANGED <<buildVars, fuseSeed, now, ncalls, found, replies>>

\* listSections from glob's result to its return
ListSectionsGlob(c) ==
  LET rec == callers[c]
      key == SectionsKey(rec.section, rec.version)
      text == SectionsText(rec.section, rec.version, docsIndex,
                           FilesOf(disk, GlobSections(disk, rec.section, rec.version)))
  IN /\ rec.pc = "glob"
     /\ rec.op = "listSections"
     /\ callers' = [callers EXCEPT ![c] = Returns(rec, text)]
     /\ cache' = CacheSet(cache, key, text)
     /\ UNCHANGED <<buildVars, fuseSeed, now, ncalls, found, replies>>

\* getApiReference up to its first await of glob; nothing is ever stored
\* under its key.
GetApiReference(c) ==
  LET rec == callers[c]
      key == ApiKey(rec.module, rec.version)
  IN /\ Resumes(c, "getApiReference")
     /\ IF CacheHit(key) /\ TextTruthy(CacheGet(key))
          THEN /\ callers' = [callers EXCEPT ![c] = ReturnsCached(rec, CacheGet(key))]
               /\ UNCHANGED cache
          ELSE /\ callers' = [callers EXCEPT ![c].pc = "glob", ![c].k = 1]
               /\ cache' = CacheAfterGet(key)
     /\ UNCHANGED <<buildVars, fuseSeed, now, ncalls, found, replies>>

\* getApiReference: one glob of its loop returns; after the third, the rest.
GetApiReferenceGlob(c) ==
  LET rec == callers[c]
      fs == rec.globbed \o GlobApi(disk, rec.module, rec.version, rec.k)
  IN /\ rec.pc = "glob"
     /\ rec.op = "getApiReference"
     /\ callers' = [callers EXCEPT ![c] =
                      IF rec.k < 3 THEN [rec EXCEPT !.k = rec.k + 1, !.globbed = fs]
                      ELSE IF fs = <<>> THEN ThrowsOwn(rec, "API reference not found")
                      ELSE Nested(rec, fs[1])]
     /\ UNCHANGED <<buildVars, fuseSeed, now, cache, ncalls, found, replies>>

\* getQuickStart up to its first await of glob; nothing is ever stored under
\* its key.
GetQuickStart(c) ==
  LET rec == callers[c]
      key == QuickStartKey(rec.platform)
  IN /\ Resumes(c, "getQuickStart")
     /\ IF CacheHit(key) /\ TextTruthy(CacheGet(key))
          THEN /\ callers' = [callers EXCEPT ![c] = ReturnsCached(rec, CacheGet(key))]
               /\ UNCHANGED cache
          ELSE /\ callers' = [callers EXCEPT ![c].pc = "glob", ![c].k = 1]
               /\ cache' = CacheAfterGet(key)
     /\ UNCHANGED <<buildVars, fuseSeed, now, ncalls, found, replies>>

\* getQuickStart: one glob of its loop returns; after the fifth it calls
\* getDocContent(files[0]) or, with no file, searchDocs.
GetQuickStartGlob(c) ==
  LET rec == callers[c]
      fs == rec.globbed \o GlobQuick(disk, rec.k)
  IN /\ rec.pc = "glob"
     /\ rec.op = "getQuickStart"
     /\ callers' = [callers EXCEPT ![c] =
                      IF rec.k < 5 THEN [rec EXCEPT !.k = rec.k + 1, !.globbed = fs]
                      ELSE IF fs # <<>> THEN Nested(rec, fs[1])
                      ELSE [rec EXCEPT !.pc = "ensure", !.outer = rec.op,
                                       !.op = "searchDocs", !.query = QQuickStart,
                                       !.section = Undefined, !.version = "latest",
                                       !.k = 0, !.globbed = <<>>]]
     /\ UNCHANGED <<buildVars, fuseSeed, now, cache, ncalls, found, replies>>

\* Time passes.
TickStep == stdTTL \div 3
Tick ==
  /\ now < MaxTicks * TickStep
  /\ now' = now + TickStep
  /\ UNCHANGED <<buildVars, fuseSeed, queryVars>>


\* ----------------------------------------------------------- specification
\* The arguments the public calls are made with.
Queries == {QRouting, QParen}
SectionArgs == {Undefined, "guides"}
VersionArgs == {Undefined, "latest"}
FilePathArgs == {<<"guides", "routing.mdx">>, <<"guides", "broken.md">>}
PathArgs == {<<>>, <<"r", "o", "u", "t">>}
ModuleArgs == {TxtCamera}
PlatformArgs == {Undefined}
FuseSeeds == 2

NoSearch == [ok |-> FALSE]

\* The state the constructor leaves: an empty cache, and initializeIndex
\* started and suspended at its first await.
ConstructedFor(C) ==
  /\ initPc = "pathExists"
  /\ files = <<>>
  /\ fileIdx = 1
  /\ docsIndex = <<>>
  /\ documentsIndex = <<>>
  /\ fuseIndex = <<>>
  /\ isInitialized = FALSE
  /\ promise = "pending"
  /\ errorLog = 0
  /\ downloadCalls = 0
  /\ buildStarts = 1
  /\ cache = {}
  /\ now = 0
  /\ callers = [c \in C |-> Idle]
  /\ ncalls = 0
  /\ found = NoSearch
  /\ replies = {}
  /\ finished = {}
Constructed == ConstructedFor(Callers)

Init ==
  /\ disk \in {Missing} \cup {Holding(fs) : fs \in StartCorpora}
  /\ fuseSeed = 1
  /\ Constructed

\* Callers are interchangeable: a call is made by the first idle one.
FirstIdle(c) == \A b \in DOMAIN callers : b < c => callers[b].pc # "idle"

PublicCall(c) ==
  \/ \E q \in Queries, s \in SectionArgs, v \in VersionArgs : CallSearchDocs(c, q, s, v)
  \/ \E f \in FilePathArgs : CallGetDocContent(c, f)
  \/ \E p \in PathArgs, v \in VersionArgs : CallGetDocByPath(c, p, v)
  \/ \E s \in SectionArgs, v \in VersionArgs : CallListSections(c, s, v)
  \/ \E m \in ModuleArgs, v \in VersionArgs : CallGetApiReference(c, m, v)
  \/ \E p \in PlatformArgs : CallGetQuickStart(c, p)

\* The history of the calls that are over: the record of a call is added
\* when its last step has run.
Finishing(c) ==
  finished' = IF callers'[c].pc = "idle"
                THEN finished \cup {[call |-> callers'[c], at |-> now]}
                ELSE finished

QueryStep(c) ==
  \/ SearchDocs(c)
  \/ GetDocContent(c)
  \/ GetDocContentRead(c)
  \/ GetDocByPath(c)
  \/ GetDocByPathGlob(c)
  \/ ListSections(c)
  \/ ListSectionsGlob(c)
  \/ GetApiReference(c)
  \/ GetApiReferenceGlob(c)
  \/ GetQuickStart(c)
  \/ GetQuickStartGlob(c)

Next ==
  \/ BuildStep
  \/ \E c \in DOMAIN callers : ncalls < MaxCalls /\ FirstIdle(c) /\ PublicCall(c)
  \/ \E c \in DOMAIN callers : QueryStep(c) /\ UNCHANGED finished

Spec == Init /\ [][Next]_vars

\* ------------------------------------------------- the search specification
\* One search over a large corpus, for each behaviour of the Fuse library.
SearchQueries == {QRouting, QTwoWords, QFence, QDot}

SearchInit ==
  /\ disk \in {Holding(LargeCorpus(n, shift)) :
                 n \in (MaxDocs - 1)..MaxDocs, shift \in 0..(NKinds - 1)}
  /\ fuseSeed \in 0..(FuseSeeds - 1)
  /\ Constructed

SearchVersions == VersionArgs \cup {"v51.0.0"}

SearchCall ==
  \E c \in DOMAIN callers, q \in SearchQueries, s \in SectionArgs, v \in SearchVersions :
    ncalls = 0 /\ CallSearchDocs(c, q, s, v)

SearchNext ==
  \/ InitPathExists
  \/ InitGlob
  \/ InitReadFile
  \/ SearchCall
  \/ \E c \in DOMAIN callers : SearchDocs(c) /\ UNCHANGED finished

SearchSpec == SearchInit /\ [][SearchNext]_vars

\* -------------------------------------------------- the cache specification
\* Searches over a small corpus while time passes.
CacheQueries == {QNone, QRouting}

CacheInit ==
  /\ disk = Holding(<<1, 2>>)
  /\ fuseSeed = 0
  /\ Constructed

CacheCall ==
  \E c \in DOMAIN callers, q \in CacheQueries, v \in VersionArgs :
    ncalls < MaxCalls + 1 /\ CallSearchDocs(c, q, Undefined, v)

CacheNext ==
  \/ InitPathExists
  \/ InitGlob
  \/ InitReadFile
  \/ CacheCall
  \/ \E c \in DOMAIN callers : SearchDocs(c) /\ UNCHANGED finished
  \/ Tick

CacheSpec == CacheInit /\ [][CacheNext]_vars

\* ------------------------------------------------ the ranking specification
\* One search for QFence, in either case, over a document titled like the
\* query and a document that holds it in 1..MaxBlocks fenced blocks.
RankQueries == {QFence, TxtFenceTitle}

RankInit ==
  /\ disk \in UNION {{Holding(<<6, 10 + n>>), Holding(<<10 + n, 6>>)} : n \in 1..MaxBlocks}
  /\ fuseSeed \in 0..(FuseSeeds - 1)
  /\ Constructed

RankCall ==
  \E c \in DOMAIN callers, q \in RankQueries :
    ncalls = 0 /\ CallSearchDocs(c, q, Undefined, Undefined)

RankNext ==
  \/ InitPathExists
  \/ InitGlob
  \/ InitReadFile
  \/ RankCall
  \/ \E c \in DOMAIN callers : SearchDocs(c) /\ Finishing(c)

RankSpec == RankInit /\ [][RankNext]_vars

\* ------------------------------------------------ the listing specification
\* Listings of a corpus that holds MaxTopics - 1 or MaxTopics files in one
\* section.
ListInit ==
  /\ disk \in {Holding(ListCorpus(n)) : n \in (MaxTopics - 1)..MaxTopics}
  /\ fuseSeed = 0
  /\ Constructed

ListSectionArgs == SectionArgs \cup {"reference"}

ListCall ==
  \E c \in DOMAIN callers, s \in ListSectionArgs, v \in SearchVersions :
    ncalls < MaxCalls /\ CallListSections(c, s, v)

ListNext ==
  \/ InitPathExists
  \/ InitGlob
  \/ InitReadFile
  \/ ListCall
  \/ \E c \in DOMAIN callers : (ListSections(c) \/ ListSectionsGlob(c)) /\ Finishing(c)

ListSpec == ListInit /\ [][ListNext]_vars

\* --------------------------------------------- the concurrency specification
\* Two callers: a call made while another is in flight runs beside it, each
\* step between two awaits at once.
TwoCallers == {1, 2}

ConcurrentInit ==
  /\ disk = Holding(<<1, 2>>)
  /\ fuseSeed = 1
  /\ ConstructedFor(TwoCallers)

ConcurrentCall ==
  \E c \in DOMAIN callers :
    /\ ncalls < MaxCalls
    /\ FirstIdle(c)
    /\ \/ \E q \in CacheQueries : CallSearchDocs(c, q, Undefined, Undefined)
       \/ CallGetDocContent(c, <<"guides", "routing.mdx">>)
       \/ CallListSections(c, Undefined, Undefined)

ConcurrentStep(c) ==
  \/ SearchDocs(c)
  \/ GetDocContent(c)
  \/ GetDocContentRead(c)
  \/ ListSections(c)
  \/ ListSectionsGlob(c)

ConcurrentNext ==
  \/ InitPathExists
  \/ InitGlob
  \/ InitReadFile
  \/ ConcurrentCall
  \/ \E c \in DOMAIN callers : ConcurrentStep(c) /\ Finishing(c)

ConcurrentSpec == ConcurrentInit /\ [][ConcurrentNext]_vars

\* ------------------------------------------------------- the tool handler
\* The tools of the server, and the names requests come with.
ToolNames ==
  {"search_expo_docs", "get_expo_doc_content", "list_expo_sections",
   "get_expo_api_reference", "get_expo_quick_start"}
RequestNames == ToolNames \cup {"get_expo_changelog"}

\* get_expo_doc_content with a url: the first 'https://docs.expo.dev/' is
\* taken out of it, then the slashes it starts with.
DocsUrl ==
  <<"h", "t", "t", "p", "s", ":", "/", "/", "d", "o", "c", "s", ".", "e", "x",
    "p", "o", ".", "d", "e", "v", "/">>
RemoveFirst(s, p) ==
  IF indexOf(s, p, 0) < 0 THEN s
  ELSE substring(s, 0, indexOf(s, p, 0))
       \o substring(s, indexOf(s, p, 0) + Len(p), Len(s))
RECURSIVE StripSlashes(_)
StripSlashes(s) == IF s # <<>> /\ Head(s) = "/" THEN StripSlashes(Tail(s)) ELSE s
UrlPath(url) == StripSlashes(RemoveFirst(url, DocsUrl))

\* The arguments of a request: an absent text is <<>>.
UrlArgs == {<<>>, DocsUrl \o <<"/", "r", "o", "u", "t">>}
ToolArgs ==
  [query : Queries, section : SectionArgs, version : VersionArgs, url : UrlArgs,
   path : PathArgs, module : ModuleArgs, platform : PlatformArgs]

\* The switch of the handler: the method a tool calls, with its arguments.
MethodCall(name, args) ==
  CASE name = "search_expo_docs" ->
         [Idle EXCEPT !.op = "searchDocs", !.query = args.query,
                      !.section = args.section, !.version = args.version]
    [] name = "get_expo_doc_content" ->
         [Idle EXCEPT !.op = "getDocByPath",
                      !.path = IF args.url # <<>> THEN UrlPath(args.url) ELSE args.path,
                      !.version = args.version]
    [] name = "list_expo_sections" ->
         [Idle EXCEPT !.op = "listSections", !.section = args.section,
                      !.version = args.version]
    [] name = "get_expo_api_reference" ->
         [Idle EXCEPT !.op = "getApiReference", !.module = args.module,
                      !.version = args.version]
    [] OTHER ->
         [Idle EXCEPT !.op = "getQuickStart", !.platform = args.platform]

\* The handler answers with an McpError without calling a method.
Refuses(c, name, given, code) ==
  /\ callers[c].pc = "idle"
  /\ callers' = [callers EXCEPT ![c] =
                   [Idle EXCEPT !.tool = name, !.given = given, !.status = "error",
                                !.code = code]]
  /\ ncalls' = ncalls + 1
  /\ UNCHANGED <<buildVars, fuseSeed, now, cache, found, replies, finished>>

\* if (!args) throw InvalidParams: before the try block.
ToolWithoutArguments(c) ==
  \E name \in RequestNames : Refuses(c, name, FALSE, "InvalidParams")

\* default: throw MethodNotFound, inside the try block, so that the catch
\* block takes it.
ToolNotFound(c) ==
  \E name \in RequestNames \ ToolNames :
    Refuses(c, name, TRUE, CatchCode("MethodNotFound"))

\* A case of the switch, up to the method's await of ensureInitialized.
ToolDispatch(c) ==
  \E name \in ToolNames, args \in ToolArgs :
    Call(c, [MethodCall(name, args) EXCEPT !.tool = name, !.given = TRUE])

CallTool(c) ==
  \/ ToolWithoutArguments(c)
  \/ ToolNotFound(c)
  \/ ToolDispatch(c)

ToolNext ==
  \/ BuildStep
  \/ \E c \in DOMAIN callers : ncalls < MaxCalls /\ FirstIdle(c) /\ CallTool(c)
  \/ \E c \in DOMAIN callers : QueryStep(c) /\ UNCHANGED finished

ToolSpec == Init /\ [][ToolNext]_vars

\* ------------------------------------------------- the lookup specification
\* Lookups by path and quick-start lookups over the small corpus, with the
\* history of the calls.
LookupCorpora == {<<1, 2>>, <<2, 1>>, <<5, 1>>}
GuidesRouting ==
  <<"g", "u", "i", "d", "e", "s", "/", "r", "o", "u", "t", "i", "n", "g">>
LookupPaths == {<<>>, StemRouting, GuidesRouting, TxtCamera, QNone, TxtReadme}
LookupVersions == {Undefined, "latest", "v51.0.0"}

LookupInit ==
  /\ disk \in {Holding(fs) : fs \in LookupCorpora}
  /\ fuseSeed = 1
  /\ Constructed

LookupCall ==
  \E c \in DOMAIN callers :
    /\ ncalls < MaxCalls
    /\ \/ \E p \in LookupPaths, v \in LookupVersions : CallGetDocByPath(c, p, v)
       \/ \E p \in PlatformArgs : CallGetQuickStart(c, p)

LookupStep(c) ==
  \/ GetDocByPath(c)
  \/ GetDocByPathGlob(c)
  \/ GetDocContent(c)
  \/ GetDocContentRead(c)
  \/ GetQuickStart(c)
  \/ GetQuickStartGlob(c)
  \/ SearchDocs(c)

LookupNext ==
  \/ InitPathExists
  \/ InitGlob
  \/ InitReadFile
  \/ LookupCall
  \/ \E c \in DOMAIN callers : LookupStep(c) /\ Finishing(c)

LookupSpec == LookupInit /\ [][LookupNext]_vars


\* ------------------------------------------------------------- properties
BuildFinished == initPc \in {"done", "failed"}
Distinct(results) ==
  \A i, j \in 1..Len(results) : results[i].path = results[j].path => i = j
ResultPaths(results) == {results[i].path : i \in 1..Len(results)}

\* C1: the results of a search, merged and returned, have pairwise distinct
\* paths, also when a document is an exact/partial hit and a fuzzy hit.
C1_ResultPathsDistinct ==
  found.ok => Distinct(found.combined) /\ Distinct(found.top)
C1_Witness ==
  /\ found.ok
  /\ \E i \in 1..Len(found.top) :
       /\ found.top[i].path \in Range(found.exact)
       /\ found.top[i].path \in Range(found.fuse)

\* C2: the returned list holds at most 10 results in non-increasing order of
\* score, and they are the top of the merged set: every returned result is a
\* merged one, none is missing while fewer than 10 are returned, and no
\* result left out scores higher than a returned one.
C2_TopTenByScore ==
  found.ok =>
    /\ Len(found.top) <= 10
    /\ \A i \in 1..(Len(found.top) - 1) : found.top[i].score >= found.top[i + 1].score
    /\ Len(found.top) = Min(Len(found.combined), 10)
    /\ \A i \in 1..Len(found.top) : \E j \in 1..Len(found.combined) :
         found.combined[j] = found.top[i]
    /\ \A j \in 1..Len(found.combined) :
         found.combined[j].path \notin ResultPaths(found.top) =>
           \A i \in 1..Len(found.top) : found.combined[j].score <= found.top[i].score
C2_Witness ==
  /\ found.ok
  /\ Len(found.combined) > 10
  /\ \E i, j \in 1..Len(found.top) : found.top[i].score > found.top[j].score
  /\ \E j \in 1..Len(found.combined) :
       /\ found.combined[j].path \notin ResultPaths(found.top)
       /\ found.combined[j].score < found.top[Len(found.top)].score

\* C3: a call of a public operation made while the build is running stays at
\* its await of ensureInitialized: whenever a caller is past that await (it
\* reads, has read, or runs a nested call), or the cache or a search result
\* exists, the build has finished, completed or failed.
PastEnsure(c) ==
  \/ callers[c].pc \notin {"idle", "ensure"}
  \/ callers[c].status # "none"
  \/ callers[c].outer # ""
C3_QueriesAwaitBuild ==
  /\ \A c \in DOMAIN callers : PastEnsure(c) => BuildFinished
  /\ (cache # {} \/ found.ok \/ replies # {}) => BuildFinished
C3_Witness ==
  \E c \in DOMAIN callers :
    /\ callers[c].pc = "ensure"
    /\ initPc = "read"
    /\ documentsIndex # <<>>

\* C4: after a failed build the failure is logged and the index is empty:
\* the path-to-metadata lookup and the document collection hold nothing.
C4_FailedBuildLeavesIndexEmpty ==
  initPc = "failed" => errorLog > 0 /\ docsIndex = <<>> /\ documentsIndex = <<>>

\* C5: no public call ends with the error 'Search index not initialized'.
C5_NotInitializedNeverSurfaced ==
  \A c \in DOMAIN callers :
    \A i \in 1..Len(callers[c].error) : callers[c].error[i] # "Search index not initialized"

\* C6: a text returned from the cache equals the text a fresh computation of
\* the same call (its arguments, the index as it is) returns.
FreshText(rec) ==
  CASE rec.op = "searchDocs" ->
         IF SearchStages(rec.query, rec.section, rec.version).ok
           THEN SearchStages(rec.query, rec.section, rec.version).text
           ELSE NoText
    [] rec.op = "getDocContent" ->
         IF CanRead(disk, rec.filePath) THEN ContentText(ReadFile(disk, rec.filePath))
         ELSE NoText
    [] rec.op = "listSections" ->
         SectionsText(rec.section, rec.version, docsIndex,
                      FilesOf(disk, GlobSections(disk, rec.section, rec.version)))
    [] OTHER -> NoText
C6_CacheHitEqualsFresh ==
  \A c \in DOMAIN callers :
    (callers[c].pc = "idle" /\ callers[c].status = "ok" /\ callers[c].hit) =>
      callers[c].text = FreshText(callers[c])

\* C7: two replies of searchDocs to the same arguments, the second less than
\* the time-to-live after the first, are the same text.
C7_RepeatedSearchIdentical ==
  \A r1, r2 \in replies :
    (/\ r1.query = r2.query
     /\ r1.section = r2.section
     /\ r1.version = r2.version
     /\ r1.at <= r2.at
     /\ r2.at - r1.at < stdTTL) => r1.text = r2.text

\* C8: initializeIndex is started once, by the constructor, and once it has
\* returned nothing fills or rebuilds the lookup, the collection or the
\* fuzzy index: no step starts it again, after a failure or otherwise.
C8_BuildStartedOnce ==
  [][/\ buildStarts = 1
     /\ buildStarts' = 1
     /\ promise = "resolved" => UNCHANGED <<docsIndex, documentsIndex, fuseIndex>>]_vars
C8_Witness ==
  /\ initPc = "failed"
  /\ documentsIndex # <<>>
  /\ ncalls = MaxCalls
  /\ \E c \in DOMAIN callers : callers[c].pc = "idle" /\ callers[c].status = "error"

\* C9: downloadAllDocs is invoked at most once in a build, and only with the
\* corpus root missing or holding no documentation file.
C9_AcquisitionAtMostOnce ==
  [][downloadCalls' # downloadCalls => downloadCalls = 0 /\ GlobAll(disk) = <<>>]_vars

\* C10: when the re-scan after the acquisition has found no file, a
\* searchDocs call ends with the no-results text and a listSections call
\* with an empty listing, and getDocByPath and getDocContent end in an error.
NothingAcquired == initPc = "done" /\ downloadCalls > 0 /\ documentsIndex = <<>>
C10_EmptyCorpusAnswers ==
  NothingAcquired =>
    \A c \in DOMAIN callers :
      (callers[c].pc = "idle" /\ callers[c].status # "none") =>
        /\ callers[c].op = "searchDocs" =>
             /\ callers[c].status = "ok"
             /\ callers[c].text.kind = "search"
             /\ callers[c].text.results = <<>>
             /\ callers[c].text.none # <<>>
        /\ callers[c].op = "listSections" =>
             /\ callers[c].status = "ok"
             /\ callers[c].text.kind = "sections"
             /\ callers[c].text.groups = <<>>
        /\ callers[c].op \in {"getDocByPath", "getDocContent"} =>
             /\ callers[c].status = "error"
             /\ callers[c].text = NoText
C10_Witness ==
  /\ NothingAcquired
  /\ \E r \in replies : r.text.results = <<>>
  /\ \E c \in DOMAIN callers :
       /\ callers[c].pc = "idle"
       /\ callers[c].op = "getDocByPath"
       /\ callers[c].status = "error"


\* ------------------------------------------------------------ lookups
\* A call of getDocByPath that is over, whether it ended in getDocByPath
\* itself or in the getDocContent it awaits.
LookupOver(rec) ==
  /\ rec.pc = "idle"
  /\ rec.status # "none"
  /\ IF rec.op = "getDocContent" THEN rec.outer = "getDocByPath"
                                  ELSE rec.op = "getDocByPath"
Resolved(rec) == rec.status = "ok" /\ rec.text.kind = "content"
Stored == Range(GlobAll(disk))
\* The relative path of a corpus file as text, without the extension.
RECURSIVE DirsText(_, _)
DirsText(path, i) ==
  IF i >= Len(path) THEN <<>>
  ELSE DirText(path[i]) \o <<"/">> \o DirsText(path, i + 1)
PathText(file) == DirsText(file.path, 1) \o file.stem
\* The fragment is the file-name stem of the file or "<directory>/<stem>".
Names(path, file) ==
  \/ path = file.stem
  \/ /\ Len(file.path) >= 2
     /\ path = DirText(file.path[Len(file.path) - 1]) \o <<"/">> \o file.stem
VersionGiven(version) == version \notin {Undefined, "latest"}
UnderVersion(path, version) == \E i \in 1..(Len(path) - 1) : path[i] = version

\* C11: a lookup by path without a version, with the file-name stem of an
\* indexed document or its "directory/stem" as the fragment, succeeds with
\* the content of a stored document whose path contains the fragment.
C11_StemResolvesWithoutVersion ==
  \A c \in DOMAIN callers :
    LET rec == callers[c]
    IN (/\ LookupOver(rec)
        /\ rec.version = Undefined
        /\ \E f \in Stored : f.readable /\ Names(rec.path, f))
       => /\ Resolved(rec)
          /\ \E f \in Stored : /\ includes(PathText(f), rec.path)
                                /\ rec.text = ContentText(f)

\* C12: a lookup by path that no stored document matches (by the fragment,
\* and below the version directory when a version is given) fails with a
\* message that holds 'Document not found' and returns no text.
C12_NoMatchIsDocumentNotFound ==
  \A c \in DOMAIN callers :
    LET rec == callers[c]
    IN (/\ LookupOver(rec)
        /\ \A f \in Stored :
              ~(/\ includes(PathText(f), rec.path)
                /\ VersionGiven(rec.version) => UnderVersion(f.path, rec.version)))
       => /\ rec.status = "error"
          /\ "Document not found" \in Range(rec.error)
          /\ rec.text = NoText

\* C13: a lookup by path with the version 'latest' ends as the same lookup
\* without a version does: the same text, or the same failure.
C13_LatestIsNoVersion ==
  \A a, b \in finished :
    (/\ LookupOver(a.call) /\ LookupOver(b.call)
     /\ a.call.path = b.call.path
     /\ a.call.version = "latest" /\ b.call.version = Undefined)
    => /\ a.call.status = b.call.status
       /\ a.call.text = b.call.text
       /\ a.call.error = b.call.error
C13_Witness ==
  \E a, b \in finished :
    /\ LookupOver(a.call) /\ LookupOver(b.call)
    /\ a.call.path = b.call.path
    /\ a.call.version = "latest" /\ b.call.version = Undefined
    /\ \E f \in Stored : Names(a.call.path, f)

\* C14: a lookup by path with a version other than 'latest', with or without
\* a fragment, succeeds with a document below a directory named like the
\* version whenever such a document (that the fragment matches, when one
\* is given) is stored.
C14_VersionResolvesBelowItsDirectory ==
  \A c \in DOMAIN callers :
    LET rec == callers[c]
    IN (/\ LookupOver(rec)
        /\ VersionGiven(rec.version)
        /\ \E f \in Stored : /\ f.readable
                              /\ UnderVersion(f.path, rec.version)
                              /\ includes(PathText(f), rec.path))
       => /\ Resolved(rec)
          /\ UnderVersion(rec.filePath, rec.version)

\* C19: a quick-start lookup that finds no file fails; it returns no text.
QuickStartOver(rec) ==
  /\ rec.pc = "idle"
  /\ rec.status # "none"
  /\ IF rec.op = "getQuickStart" THEN TRUE ELSE rec.outer = "getQuickStart"
C19_QuickStartWithoutFileFails ==
  \A c \in DOMAIN callers :
    LET rec == callers[c]
    IN (QuickStartOver(rec) /\ \A k \in 1..5 : GlobQuick(disk, k) = <<>>)
       => rec.status = "error" /\ rec.text = NoText


\* ------------------------------------------------------------ ranking
\* The indexed document at a path.
DocumentAt(path) ==
  documentsIndex[CHOOSE i \in 1..Len(documentsIndex) : documentsIndex[i].path = path]
TitleIsQuery(doc, query) ==
  /\ toLowerCase(doc.title) = toLowerCase(query)
  /\ ~includes(toLowerCase(doc.content), toLowerCase(query))
QueryInBodyOnly(doc, query) ==
  /\ ~includes(toLowerCase(doc.title), toLowerCase(query))
  /\ includes(toLowerCase(doc.content), toLowerCase(query))

Occurrences(content, query) ==
  {k \in 1..Len(content) : OccursAt(toLowerCase(content), toLowerCase(query), k)}

\* C16: the excerpt of a result whose body holds the query exactly once
\* holds that span of the body, whole, between emphasis markers.
C16_ExcerptHoldsHighlightedSpan ==
  found.ok =>
    \A i \in 1..Len(found.top) :
      LET content == DocumentAt(found.top[i].path).content
          occurs == Occurrences(content, found.query)
      IN Cardinality(occurs) = 1 =>
           \A k \in occurs :
             includes(found.excerpts[i],
                      <<"*", "*">> \o Slice(content, k, k + Len(found.query) - 1)
                                  \o <<"*", "*">>)


\* ------------------------------------------------------------ expiry
\* The step in which searchDocs reads the cache and returns.
SearchReturns(c) ==
  /\ callers[c].pc = "ensure"
  /\ callers[c].op = "searchDocs"
  /\ callers'[c].pc = "idle"
  /\ callers'[c].status = "ok"
\* The entries under the key of c's search; an entry was written at its
\* time t less the time to live.
EntriesOf(c) ==
  {e \in cache :
     e.key = SearchKey(callers[c].query, callers[c].section, callers[c].version)}
WrittenAt(e) == e.t - stdTTL

\* C17 as stated: a read returns the entry of its key exactly when less than
\* one week has passed since the entry was written.
C17_AbsentFromOneWeekOn ==
  [][\A c \in DOMAIN callers :
       SearchReturns(c) =>
         (callers'[c].hit <=> \E e \in EntriesOf(c) : now < WrittenAt(e) + 604800)]_vars

\* C17, amended: a read returns the entry of its key exactly when at most
\* one week has passed since the entry was written (the entry is absent
\* after that instant, not from it on); a read that returns the entry
\* leaves the cache as it is, and a read that does not writes an entry at
\* the time of the read.
C17_AbsentAfterOneWeek ==
  [][\A c \in DOMAIN callers :
       SearchReturns(c) =>
         /\ callers'[c].hit <=> \E e \in EntriesOf(c) : now <= WrittenAt(e) + 604800
         /\ callers'[c].hit => cache' = cache
         /\ ~callers'[c].hit =>
              \E e \in cache' : /\ e.key = SearchKey(callers[c].query, callers[c].section,
                                                     callers[c].version)
                                 /\ WrittenAt(e) = now
                                 /\ e.text = callers'[c].text]_vars
\* A search has returned an entry at the very instant one week after it was
\* written, and the entry is as it was.
C17_Witness ==
  \E c \in DOMAIN callers :
    /\ callers[c].pc = "idle"
    /\ callers[c].hit
    /\ \E e \in cache :
         /\ e.key = SearchKey(callers[c].query, callers[c].section, callers[c].version)
         /\ now = WrittenAt(e) + 604800
         /\ e.text = callers[c].text


\* ------------------------------------------------------------ listing
\* The section of a corpus file and its title, read off the file.
SectionOfFile(file) ==
  IF file.path[1] \in {"guides", "reference"} THEN file.path[1] ELSE "general"
TitleOfFile(file) == IF file.data.title # <<>> THEN file.data.title ELSE file.stem
\* The positions in the corpus of the files of a section, and the k-th of
\* them.
Members(name) ==
  {i \in 1..Len(GlobAll(disk)) : SectionOfFile(GlobAll(disk)[i]) = name}
Member(name, k) ==
  CHOOSE i \in Members(name) : Cardinality({j \in Members(name) : j <= i}) = k
ListedAll(rec) ==
  /\ rec.pc = "idle"
  /\ rec.op = "listSections"
  /\ rec.status = "ok"
  /\ rec.section = Undefined
  /\ rec.version = Undefined

\* C18: the listing without arguments has one group per section of the
\* corpus, each with the titles of its first 15 files in order and the count
\* of the files beyond the 15th (0: no marker).
C18_GroupsBySectionFirstFifteen ==
  \A c \in DOMAIN callers :
    ListedAll(callers[c]) =>
      LET groups == callers[c].text.groups
      IN /\ {groups[i].name : i \in 1..Len(groups)}
              = {SectionOfFile(f) : f \in Stored}
         /\ \A i, j \in 1..Len(groups) : groups[i].name = groups[j].name => i = j
         /\ \A i \in 1..Len(groups) :
              LET n == Cardinality(Members(groups[i].name))
              IN /\ Len(groups[i].topics) = (IF n > 15 THEN 15 ELSE n)
                 /\ groups[i].more = (IF n > 15 THEN n - 15 ELSE 0)
                 /\ \A k \in 1..Len(groups[i].topics) :
                      groups[i].topics[k]
                        = TitleOfFile(GlobAll(disk)[Member(groups[i].name, k)])
C18_Witness ==
  \E c \in DOMAIN callers :
    /\ ListedAll(callers[c])
    /\ \E i, j \in 1..Len(callers[c].text.groups) :
         /\ callers[c].text.groups[i].more = 1
         /\ Len(callers[c].text.groups[i].topics) = 15
         /\ callers[c].text.groups[j].more = 0
         /\ callers[c].text.groups[j].name = "general"


\* ------------------------------------------------------------ concurrency
\* Two calls of the same cached method with the same arguments.  A caller
\* other than the first is called only while the first is in flight.
SameCall(a, b) ==
  /\ a.op = b.op
  /\ a.op \in {"searchDocs", "getDocContent", "listSections"}
  /\ a.outer = "" /\ b.outer = ""
  /\ a.query = b.query /\ a.section = b.section /\ a.version = b.version
  /\ a.filePath = b.filePath
KeyOf(rec) ==
  CASE rec.op = "searchDocs" -> SearchKey(rec.query, rec.section, rec.version)
    [] rec.op = "getDocContent" -> ContentKey(rec.filePath)
    [] OTHER -> SectionsKey(rec.section, rec.version)

\* C20: of two identical calls that ran beside each other and returned, at
\* most one computed its text (the other took it from the cache), and both
\* returned the text the cache holds under their key.
C20_OneOfTwoComputes ==
  \A a, b \in DOMAIN callers :
    (/\ a # b
     /\ callers[a].pc = "idle" /\ callers[b].pc = "idle"
     /\ callers[a].status = "ok" /\ callers[b].status = "ok"
     /\ SameCall(callers[a], callers[b]))
    => /\ callers[a].hit \/ callers[b].hit
       /\ callers[a].text = callers[b].text
       /\ \E e \in cache : e.key = KeyOf(callers[a]) /\ e.text = callers[a].text


\* ------------------------------------------------------------ merging
\* Where a path stands in the merged results and in the fuzzy results.
MergedAt(path) == {k \in 1..Len(found.combined) : found.combined[k].path = path}
FuzzyAt(path) == {j \in 1..Len(found.fuse) : found.fuse[j] = path}

\* C21: every exact/partial hit is in the merged results, once, with a
\* score that is its own score when it is no fuzzy hit and the larger of its
\* own score and 0.7 * own + 0.3 * (1 - d) * 10 when it is a fuzzy hit at
\* distance d: never lower, and higher only when the fuzzy score is above
\* it, below 10 (scores in hundredths).
C21_ExactHitsNeverLowered ==
  found.ok =>
    \A i \in 1..Len(found.exactScored) :
      LET own == found.exactScored[i].score
          path == found.exactScored[i].path
      IN /\ Cardinality(MergedAt(path)) = 1
         /\ \A k \in MergedAt(path) :
              /\ found.combined[k].score >= own
              /\ FuzzyAt(path) = {} => found.combined[k].score = own
              /\ \A j \in FuzzyAt(path) :
                   LET fuzzy == (100 - found.distances[j]) * 10
                       weighted == (7 * own + 3 * fuzzy) \div 10
                   IN /\ found.combined[k].score
                           = (IF weighted > own THEN weighted ELSE own)
                      /\ found.combined[k].score > own => fuzzy > own /\ own < 1000
C21_Witness ==
  /\ found.ok
  /\ \E i, j \in 1..Len(found.exactScored) :
       /\ FuzzyAt(found.exactScored[i].path) # {}
       /\ FuzzyAt(found.exactScored[j].path) # {}
       /\ \A k \in MergedAt(found.exactScored[i].path) :
            found.combined[k].score > found.exactScored[i].score
       /\ \A k \in MergedAt(found.exactScored[j].path) :
            found.combined[k].score = found.exactScored[j].score


\* ------------------------------------------------------------ filtering
\* C22: every result a search returns has the section asked for, and the
\* version asked for when it is not 'latest'; the exact/partial hits and
\* the fuzzy hits are documents of that section and version.
C22_ResultsWithinFilter ==
  /\ \A c \in DOMAIN callers :
       LET rec == callers[c]
       IN (rec.pc = "idle" /\ rec.op = "searchDocs" /\ rec.status = "ok") =>
            \A i \in 1..Len(rec.text.results) :
              /\ Truthy(rec.section) => rec.text.results[i].section = rec.section
              /\ VersionGiven(rec.version) => rec.text.results[i].version = rec.version
  /\ found.ok =>
       \A path \in Range(found.exact) \cup Range(found.fuse) :
         /\ Truthy(found.section) => DocumentAt(path).section = found.section
         /\ VersionGiven(found.version) => DocumentAt(path).version = found.version
C22_Witness ==
  /\ found.ok
  /\ found.section = "guides"
  /\ found.version = "v51.0.0"
  /\ found.exact # <<>>
  /\ found.fuse # <<>>
  /\ \E i, j \in 1..Len(documentsIndex) :
       /\ documentsIndex[i].section # "guides"
       /\ documentsIndex[j].section = "guides" /\ documentsIndex[j].version # "v51.0.0"


\* ------------------------------------------------------- read-only queries
\* C23: with the build over, a step of a query operation leaves the lookup,
\* the collection with every field of its documents, and the full fuzzy
\* index as they were; a filtered search and the merge of scores included.
C23_QueriesLeaveIndexAlone ==
  [][(promise = "resolved" /\ callers' # callers) =>
       /\ docsIndex' = docsIndex
       /\ documentsIndex' = documentsIndex
       /\ fuseIndex' = fuseIndex]_vars
C23_Witness ==
  /\ promise = "resolved"
  /\ found.ok
  /\ Truthy(found.section)
  /\ Len(SearchableDocuments(documentsIndex, found.section, found.version))
       < Len(documentsIndex)
  /\ \E i \in 1..Len(found.exact) : FuzzyAt(found.exact[i]) # {}


\* ------------------------------------------------------- literal scoring
\* The occurrences of p in s as a literal substring, counted from the left
\* without overlap.
RECURSIVE LiteralCountFrom(_, _, _)
LiteralCountFrom(s, p, i) ==
  IF i + Len(p) - 1 > Len(s) THEN 0
  ELSE IF OccursAt(s, p, i)
         THEN 1 + LiteralCountFrom(s, p, i + Len(p))
         ELSE LiteralCountFrom(s, p, i + 1)
LiteralCount(s, p) == IF p = <<>> THEN Len(s) + 1 ELSE LiteralCountFrom(s, p, 1)
RECURSIVE LiteralWordScore(_, _)
LiteralWordScore(contentLower, words) ==
  IF words = <<>> THEN 0
  ELSE Min(LiteralCount(contentLower, Head(words)), 3)
       + LiteralWordScore(contentLower, Tail(words))
LiteralBodyScore(query, doc) ==
  Min(LiteralCount(toLowerCase(doc.content), toLowerCase(query)) * 3, 15)
  + LiteralWordScore(toLowerCase(doc.content), Words(toLowerCase(query)))
LiteralDocScore(query, doc) ==
  TitleScore(toLowerCase(doc.title), toLowerCase(query))
  + 5 * CountWordsIn(toLowerCase(doc.title), Words(toLowerCase(query)))
  + LiteralBodyScore(query, doc)
  + CodeBlockScore(CodeBlocks(doc.content), toLowerCase(query),
                   Words(toLowerCase(query)))

\* C24: no search ends with a regular-expression error, and the score of an
\* exact/partial hit is its title part and code-block part plus 3 for every
\* literal occurrence of the query in the body (15 at most) and 1 for every
\* literal occurrence of each query word (3 at most per word).
C24_BodyScoreCountsLiterals ==
  /\ \A c \in DOMAIN callers :
       \A i \in 1..Len(callers[c].error) :
         callers[c].error[i] # "Invalid regular expression"
  /\ found.ok =>
       \A i \in 1..Len(found.exactScored) :
         found.exactScored[i].score
           = 100 * LiteralDocScore(found.query, DocumentAt(found.exactScored[i].path))


\* --------------------------------------------------------- fenced blocks
\* The fenced blocks of a text: from a fence to the next fence after it,
\* whatever lies between them, from the left without overlap.
NextFences(s, i) == {j \in (i + 3)..(Len(s) - 2) : OccursAt(s, Fence, j)}
RECURSIVE FencedBlocksFrom(_, _)
FencedBlocksFrom(s, i) ==
  IF i + 5 > Len(s) THEN <<>>
  ELSE IF OccursAt(s, Fence, i) /\ NextFences(s, i) # {}
         THEN LET j == SetMin(NextFences(s, i))
              IN <<Slice(s, i, j + 2)>> \o FencedBlocksFrom(s, j + 3)
         ELSE FencedBlocksFrom(s, i + 1)
FencedBlocks(s) == FencedBlocksFrom(s, 1)
FencedDocScore(query, doc) ==
  TitleScore(toLowerCase(doc.title), toLowerCase(query))
  + 5 * CountWordsIn(toLowerCase(doc.title), Words(toLowerCase(query)))
  + Min(MatchCount(toLowerCase(doc.content), toLowerCase(query)) * 3, 15)
  + WordMatchScore(toLowerCase(doc.content), Words(toLowerCase(query)))
  + CodeBlockScore(FencedBlocks(doc.content), toLowerCase(query),
                   Words(toLowerCase(query)))

\* C25: the score of an exact/partial hit holds, for every fenced block of
\* the body whatever the block contains, 4 when the block holds the query
\* and otherwise 2 for each query word the block holds.
C25_EveryFencedBlockScanned ==
  found.ok =>
    \A i \in 1..Len(found.exactScored) :
      LET doc == DocumentAt(found.exactScored[i].path)
      IN FencedBlocks(doc.content) # <<>> =>
           found.exactScored[i].score = 100 * FencedDocScore(found.query, doc)


\* ------------------------------------------------------------------ ties
\* Where a path stands in the collection, and the fuzzy hits that are no
\* exact/partial hit, in fuzzy order.
IndexedAt(path) == CHOOSE k \in 1..Len(documentsIndex) : documentsIndex[k].path = path
FuzzyOnly(path) == path \notin Range(found.exact)

\* C26: the merge map holds the exact/partial hits in the order the
\* collection holds their documents, then the fuzzy-only hits in fuzzy
\* order; two returned results of equal score stand in the order the merge
\* map holds them.
C26_TiesKeepInsertionOrder ==
  found.ok =>
    /\ \A i, j \in 1..Len(found.exact) :
         i < j => IndexedAt(found.exact[i]) < IndexedAt(found.exact[j])
    /\ [k \in 1..Len(found.combined) |-> found.combined[k].path]
         = found.exact \o SelectSeq(found.fuse, FuzzyOnly)
    /\ \A i, j \in 1..Len(found.top) :
         (i < j /\ found.top[i].score = found.top[j].score) =>
           \A a \in MergedAt(found.top[i].path), b \in MergedAt(found.top[j].path) :
             a < b
C26_Witness ==
  /\ found.ok
  /\ \E i, j \in 1..Len(found.top) :
       /\ i < j
       /\ found.top[i].score = found.top[j].score
       /\ ~FuzzyOnly(found.top[i].path)
       /\ FuzzyOnly(found.top[j].path)
  /\ \E i, j \in 1..Len(found.top) :
       /\ i < j
       /\ found.top[i].score = found.top[j].score
       /\ ~FuzzyOnly(found.top[i].path)
       /\ ~FuzzyOnly(found.top[j].path)


\* ---------------------------------------------------------- failed calls
\* The step in which caller c's call ends with a computed text.
EndsComputed(c) ==
  /\ callers[c].pc # "idle"
  /\ callers'[c].pc = "idle"
  /\ callers'[c].status = "ok"
  /\ ~callers'[c].hit

\* C27: the cache changes only in the step in which a call ends with the
\* text it has computed, so a call that ends with an error has left the
\* cache as it found it; and a call that ends with an error returns no text.
C27_FailedCallLeavesCacheAlone ==
  [][/\ cache' # cache => \E c \in DOMAIN callers : EndsComputed(c)
     /\ \A c \in DOMAIN callers :
          callers'[c].status = "error" => callers'[c].text = NoText]_vars
C27_Witness ==
  /\ cache # {}
  /\ ncalls = MaxCalls
  /\ \E c \in DOMAIN callers :
       /\ callers[c].pc = "idle"
       /\ callers[c].status = "error"
       /\ callers[c].op \in {"searchDocs", "getDocContent"}
       /\ \A i \in 1..Len(callers[c].error) :
            callers[c].error[i] # "Search index not initialized"


\* ------------------------------------------------- unconstrained lookups
\* A stored document the arguments of a lookup allow: its path holds the
\* fragment, and it lies below the version directory when one is given.
Allowed(f, path, version) ==
  /\ f.readable
  /\ includes(PathText(f), path)
  /\ VersionGiven(version) => UnderVersion(f.path, version)

\* C28: a lookup by path succeeds with the content of a stored document
\* whenever a stored document satisfies the fragment and the version it was
\* given; with neither of them, whenever the corpus holds a document.
C28_LookupSucceedsWhenAllowed ==
  \A c \in DOMAIN callers :
    LET rec == callers[c]
    IN (LookupOver(rec) /\ \E f \in Stored : Allowed(f, rec.path, rec.version))
       => Resolved(rec)


\* ------------------------------------------------- section and version
\* C29: a listing asked for with a section and a version other than
\* 'latest' holds only titles of stored files that lie below a directory
\* named like the section and below a directory named like the version.
C29_ListingKeepsSectionWithVersion ==
  \A c \in DOMAIN callers :
    LET rec == callers[c]
    IN (/\ rec.pc = "idle"
        /\ rec.op = "listSections"
        /\ rec.status = "ok"
        /\ Truthy(rec.section)
        /\ VersionGiven(rec.version))
       => \A i \in 1..Len(rec.text.groups) :
            \A k \in 1..Len(rec.text.groups[i].topics) :
              \E f \in Stored :
                /\ TitleOfFile(f) = rec.text.groups[i].topics[k]
                /\ UnderVersion(f.path, rec.section)
                /\ UnderVersion(f.path, rec.version)


\* ------------------------------------------------------------ error codes
\* A request the handler has answered with an McpError.
Refused(rec) == rec.pc = "idle" /\ rec.tool # "" /\ rec.status = "error"

\* C30: a request that names no tool of the server is answered with the
\* code MethodNotFound, a request without arguments with InvalidParams, and
\* InternalError answers only requests for a tool of the server whose
\* method has failed.
C30_UnknownToolIsMethodNotFound ==
  \A c \in DOMAIN callers :
    LET rec == callers[c]
    IN Refused(rec) =>
         /\ ~rec.given => rec.code = "InvalidParams"
         /\ (rec.given /\ rec.tool \notin ToolNames) => rec.code = "MethodNotFound"
         /\ rec.code = "InternalError" =>
              rec.tool \in ToolNames /\ rec.op # "" /\ rec.error # <<>>

====
